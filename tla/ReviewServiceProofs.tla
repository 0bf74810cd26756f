------------------------- MODULE ReviewServiceProofs -------------------------
(***************************************************************************)
(* Proofs about ReviewService, for every number of calls, servers and      *)
(* workflows and every value of the bounds.                                *)
(***************************************************************************)
EXTENDS ReviewService, LedgerProofs

Request == [workflow : Workflows, hash : Requests]
States == [Workflows -> Workflow \cup {NoWorkflow}]

(* What the frame of a call holds at each of its steps.                    *)
Frames ==
  \A c \in Calls :
    /\ pc[c] # "idle" => req[c] \in Request
    /\ pc[c] = "turn" => thread[c] \in Threads
    /\ pc[c] \in {"save", "saving", "writing", "evicting"} => done[c] \in Workflow
    /\ pc[c] \in {"writing", "evicting"} => st[c] \in States

Typed == TypeOK /\ Frames

-----------------------------------------------------------------------------
(* Types of the operators the actions use.                                 *)

(* A finished turn makes a record (review.go, the end of review).          *)
LEMMA FinishedRoundType ==
  ASSUME NEW before \in Workflow \cup {NoWorkflow}, NEW t \in Threads,
         NEW q \in Requests, NEW n \in ReviewSizes
  PROVE  FinishedRound(before, t, q, n) \in Workflow
<1>1. RoundAfter(before) \in Nat
  BY DEF RoundAfter, Workflow
<1>2. n \in Nat
  BY ServiceAssumption
<1>3. << >> \in Seq(HistoryRecord)
  BY EmptySeq
<1>4. QED
  BY <1>1, <1>2, <1>3 DEF FinishedRound, Workflow

(* saveCompleted builds a record from the completed round.                 *)
LEMMA SupersedingType ==
  ASSUME NEW before \in Workflow \cup {NoWorkflow},
         NEW fresh \in Workflow \cup {NoWorkflow}, NEW new \in Workflow,
         before # NoWorkflow => fresh # NoWorkflow
  PROVE  Superseding(before, fresh, new) \in Workflow
<1>1. CASE before = NoWorkflow
  BY <1>1 DEF Superseding
<1>2. CASE before # NoWorkflow
  <2>1. before \in Workflow /\ fresh \in Workflow
    BY <1>2
  <2>2. NewHistoryRecord(before.round, before.review) \in HistoryRecord
    BY <2>1, NewHistoryRecordType DEF Workflow
  <2>3. fresh.history \in Seq(HistoryRecord) /\ new.review \in Nat
    BY <2>1 DEF Workflow
  <2>4. RetainHistory(fresh.history, NewHistoryRecord(before.round, before.review),
                      new.review) \in Seq(HistoryRecord)
    BY <2>2, <2>3, RetainHistoryType
  <2>5. QED
    BY <1>2, <2>4 DEF Superseding, Workflow
<1>3. QED
  BY <1>1, <1>2

(* The file has a size (state.go, Save).                                   *)
LEMMA StateSize ==
  ASSUME NEW s \in States
  PROVE  EncodedBytes(s) \in Nat
<1>1. IsFiniteSet(DOMAIN s)
  BY ServiceAssumption DEF States
<1>2. \A w \in DOMAIN s : s[w] # NoWorkflow =>
        s[w].history \in Seq(HistoryRecord) /\ s[w].review \in Nat
  BY DEF States, Workflow
<1>3. QED
  BY <1>1, <1>2, EncodedBytesType

-----------------------------------------------------------------------------

(* No call has a frame at first.                                           *)
LEMMA TypedInit == Init => Typed
<1> SUFFICES ASSUME Init PROVE Typed
  OBVIOUS
<1>1. /\ overtaken \in BOOLEAN
      /\ st \in [Writers -> [Workflows -> Workflow \cup {NoWorkflow}] \cup {NoState}]
  BY DEF Init
<1>2. TypeOK
  BY <1>1, ServiceAssumption DEF Init, TypeOK, Steps, LockedSteps, Outcomes, NoPressure
<1>3. Frames
  BY DEF Init, Frames
<1>4. QED
  BY <1>2, <1>3 DEF Typed

(* Every step of review() leaves well-typed frames, with what the next     *)
(* step reads.                                                             *)
LEMMA TypedStep == Typed /\ [Next]_vars => Typed'
<1> SUFFICES ASSUME Typed, [Next]_vars PROVE Typed'
  OBVIOUS
<1> USE ServiceAssumption
    DEF Typed, TypeOK, Frames, Writers, Goto, Return, Forget, locks, callData, env
<1>1. ASSUME NEW c \in Calls, Submit(c) PROVE Typed'
  BY <1>1 DEF Submit, Steps, Request
<1>2. ASSUME NEW c \in Calls, AcquireWorkflowLock(c) PROVE Typed'
  BY <1>2 DEF AcquireWorkflowLock, Steps, LockedSteps, Request
<1>3. ASSUME NEW c \in Calls, WorkflowLockRefused(c) PROVE Typed'
  BY <1>3 DEF WorkflowLockRefused, Steps, Outcomes
<1>4. ASSUME NEW c \in Calls, AcquireStateLock(c) PROVE Typed'
  BY <1>4 DEF AcquireStateLock, Steps, LockedSteps
<1>5. ASSUME NEW c \in Calls, StateLockRefused(c) PROVE Typed'
  BY ZenonT(60), <1>5 DEF StateLockRefused, Steps, LockedSteps, Outcomes
<1>6. ASSUME NEW c \in Calls, LoadWorkflow(c) PROVE Typed'
  <2>1. wf' \in [Calls -> Workflow \cup {NoWorkflow}] /\ loaded' \in [Servers -> BOOLEAN]
    <3>1. file[req[c].workflow] \in Workflow \cup {NoWorkflow}
      BY <1>6 DEF LoadWorkflow, Request
    <3>2. CASE Decodes
      BY <1>6, <3>1, <3>2 DEF LoadWorkflow
    <3>3. CASE ~ Decodes
      BY <1>6, <3>3 DEF LoadWorkflow
    <3>4. QED BY <3>2, <3>3
  <2>2. \/ /\ pc' = [pc EXCEPT ![c] = "unlock"]
           /\ outcome' = [outcome EXCEPT ![c] = "failed"]
        \/ pc' = [pc EXCEPT ![c] = "target"] /\ UNCHANGED outcome
    BY <1>6 DEF LoadWorkflow
  <2>3. /\ pc[c] = "loading" /\ slock' = Free /\ overtaken' \in BOOLEAN
        /\ UNCHANGED <<file, readable, wlock, live, req, thread, done, st, pressure, orphans,
                       crashes, edits>>
    BY <1>6 DEF LoadWorkflow
  <2>4. TypeOK'
    <3>1. pc' \in [Calls -> Steps] /\ outcome' \in [Calls -> Outcomes]
      BY <2>2 DEF Steps, LockedSteps, Outcomes
    <3>2. QED BY <2>1, <2>3, <3>1
  <2>5. Frames'
    BY <2>2, <2>3
  <2>6. QED
    BY <2>4, <2>5
<1>7. ASSUME NEW c \in Calls, ReplayReview(c) PROVE Typed'
  BY <1>7 DEF ReplayReview, Steps, LockedSteps, Outcomes
<1>8. ASSUME NEW c \in Calls, ValidateTarget(c) PROVE Typed'
  BY <1>8 DEF ValidateTarget, Steps, LockedSteps
<1>9. ASSUME NEW c \in Calls, NewReviewer(c) PROVE Typed'
  BY <1>9 DEF NewReviewer, Steps, LockedSteps
<1>10. ASSUME NEW c \in Calls, SetupFails(c) PROVE Typed'
  BY <1>10 DEF SetupFails, Steps, LockedSteps, Outcomes
<1>11. ASSUME NEW c \in Calls, ResumeThread(c) PROVE Typed'
  BY <1>11 DEF ResumeThread, Known, Steps, LockedSteps, Workflow
<1>12. ASSUME NEW c \in Calls, StartThread(c) PROVE Typed'
  BY <1>12 DEF StartThread, Steps, LockedSteps
<1>13. ASSUME NEW c \in Calls, ReviewFails(c) PROVE Typed'
  BY <1>13 DEF ReviewFails, Steps, LockedSteps, Outcomes
<1>14. ASSUME NEW c \in Calls, Review(c) PROVE Typed'
  <2>1. PICK n \in ReviewSizes :
          done' = [done EXCEPT ![c] = FinishedRound(wf[c], thread[c], req[c].hash, n)]
    BY <1>14 DEF Review
  <2>2. FinishedRound(wf[c], thread[c], req[c].hash, n) \in Workflow
    BY <1>14, FinishedRoundType DEF Review, Request
  <2>3. QED
    BY <1>14, <2>1, <2>2 DEF Review, Steps, LockedSteps
<1>15. ASSUME NEW c \in Calls, SaveCompleted(c) PROVE Typed'
  <2> DEFINE w == req[c].workflow
             new == Superseding(wf[c], file[w], done[c])
  <2>1. w \in Workflows /\ done[c] \in Workflow
    BY <1>15 DEF SaveCompleted, Request
  <2>2. CASE Decodes /\ Unchanged(c, file[w])
    <3>1. new \in Workflow
      BY <2>1, <2>2, SupersedingType DEF Unchanged, Known
    <3>2. [file EXCEPT ![w] = new] \in States
      BY <2>1, <3>1 DEF States
    <3>3. st' = [st EXCEPT ![c] = [file EXCEPT ![w] = new]] /\ pc' = [pc EXCEPT ![c] = "writing"]
      BY <1>15, <2>2 DEF SaveCompleted
    <3> HIDE DEF new, w
    <3>4. QED
      BY <1>15, <3>2, <3>3 DEF SaveCompleted, Steps, LockedSteps, Decodes, States
  <2>3. CASE ~ (Decodes /\ Unchanged(c, file[w]))
    BY ZenonT(60), <1>15, <2>3 DEF SaveCompleted, Steps, LockedSteps, Outcomes, Decodes
  <2>4. QED
    BY <2>2, <2>3
<1>16. ASSUME NEW c \in Calls, WriteAtomic(c) PROVE Typed'
  BY <1>16 DEF WriteAtomic, Steps, LockedSteps, States
<1>17. ASSUME NEW c \in Calls, WriteFails(c) PROVE Typed'
  BY <1>17 DEF WriteFails, Steps, LockedSteps, Outcomes
<1>18. ASSUME NEW c \in Calls, SaveTooLarge(c) PROVE Typed'
  <2>1. EncodedBytes(st[c]) \in Nat
    BY <1>18, StateSize DEF SaveTooLarge
  <2>2. EncodedBytes(st[c]) - StateLimit \in Nat
    BY <1>18, <2>1 DEF SaveTooLarge, TooLarge
  <2>3. QED
    BY <1>18, <2>2 DEF SaveTooLarge, Steps, LockedSteps
<1>19. ASSUME NEW c \in Calls, EvictRecord(c) PROVE Typed'
  <2>1. PICK w \in Largest(st[c]) :
          /\ st' = [st EXCEPT ![c][w].history = Tail(@)]
          /\ pressure' = [pressure EXCEPT ![c] =
               [over |-> @.over, evicted |-> TRUE,
                freed |-> @.freed + HistoryRecordBytes(Head(st[c][w].history))]]
    BY <1>19 DEF EvictRecord
  <2>2. st[c] \in States
    BY <1>19 DEF EvictRecord, Evicting
  <2>3. /\ w \in Workflows /\ st[c][w] \in Workflow
        /\ st[c][w].history \in Seq(HistoryRecord) /\ st[c][w].history # << >>
    BY <2>2 DEF Largest, Candidates, Present, States, Workflow
  <2>4. Tail(st[c][w].history) \in Seq(HistoryRecord) /\ Head(st[c][w].history) \in HistoryRecord
    BY <2>3, HeadTailProperties
  <2>5. HistoryRecordBytes(Head(st[c][w].history)) \in Nat
    BY ONLY <2>4, LedgerAssumption DEF HistoryRecordBytes, HistoryRecord
  <2>6. pressure' \in [Calls -> [over : Nat, freed : Nat, evicted : BOOLEAN]]
    BY <2>1, <2>5
  <2>7. [st[c] EXCEPT ![w].history = Tail(@)] \in States
    BY <2>2, <2>3, <2>4 DEF States, Workflow
  <2>8. st' = [st EXCEPT ![c] = [st[c] EXCEPT ![w].history = Tail(@)]]
    BY <2>1
  <2>9. QED
    BY ZenonT(60), <1>19, <2>6, <2>7, <2>8 DEF EvictRecord, States
<1>20. ASSUME NEW c \in Calls, SaveAgain(c) PROVE Typed'
  BY <1>20 DEF SaveAgain, Steps, LockedSteps, NoPressure
<1>21. ASSUME NEW c \in Calls, EvictionFails(c) PROVE Typed'
  <2>1. pressure' \in [Calls -> [over : Nat, freed : Nat, evicted : BOOLEAN]]
    BY <1>21 DEF EvictionFails, NoPressure
  <2>2. /\ pc[c] = "evicting" /\ pc' = [pc EXCEPT ![c] = "stateUnlock"]
        /\ outcome' = [outcome EXCEPT ![c] = "unsaved"]
        /\ UNCHANGED <<file, readable, wlock, slock, loaded, live, req, wf, thread, done, st,
                       orphans, crashes, edits, overtaken>>
    BY <1>21 DEF EvictionFails, Evicting
  <2>3. QED
    <3>1. TypeOK'
      BY <2>1, <2>2 DEF Steps, LockedSteps, Outcomes
    <3>2. Frames'
      BY <2>2
    <3>3. QED BY <3>1, <3>2
<1>22. ASSUME NEW c \in Calls, SyncDir(c) PROVE Typed'
  BY <1>22 DEF SyncDir, Steps, LockedSteps, Outcomes
<1>23. ASSUME NEW c \in Calls, ReleaseStateLock(c) PROVE Typed'
  BY <1>23 DEF ReleaseStateLock, Steps, LockedSteps
<1>24. ASSUME NEW c \in Calls, CloseReviewer(c) PROVE Typed'
  BY <1>24 DEF CloseReviewer, ChildExits, Steps, LockedSteps
<1>25. ASSUME NEW c \in Calls, ReleaseWorkflowLock(c) PROVE Typed'
  BY <1>25 DEF ReleaseWorkflowLock, Steps, Outcomes, Request
<1>26. ASSUME NEW c \in Calls, Cancel(c) PROVE Typed'
  BY <1>26 DEF Cancel
<1>27. ASSUME NEW s \in Servers, Crash(s) PROVE Typed'
  BY <1>27 DEF Crash, Steps, Outcomes, NoPressure
<1>28. ASSUME NEW t \in Threads, OrphanExits(t) PROVE Typed'
  BY <1>28 DEF OrphanExits
<1>29. ASSUME OlderBegins PROVE Typed'
  <2>1. st' \in [Writers -> [Workflows -> Workflow \cup {NoWorkflow}] \cup {NoState}]
    BY <1>29 DEF OlderBegins
  <2>2. /\ slock' = Older /\ edits' \in Nat /\ overtaken' \in BOOLEAN
        /\ st' = [st EXCEPT ![Older] = st'[Older]]
        /\ UNCHANGED <<file, readable, wlock, loaded, pc, live, req, wf, thread, done, pressure,
                       outcome, orphans, crashes>>
    <3>1. st' = [st EXCEPT ![Older] = st'[Older]]
      BY <1>29 DEF OlderBegins
    <3>2. edits' \in Nat
      BY <1>29 DEF OlderBegins
    <3>3. overtaken' \in BOOLEAN
      BY <1>29, Zenon DEF OlderBegins
    <3>4. QED
      BY <1>29, <3>1, <3>2, <3>3 DEF OlderBegins
  <2>3. TypeOK'
    BY <2>1, <2>2
  <2>4. Frames'
    BY <2>2
  <2>5. QED
    BY <2>3, <2>4
<1>30. ASSUME OlderEnds PROVE Typed'
  <2>1. file' \in States /\ readable' \in BOOLEAN
    <3>1. CASE UNCHANGED <<file, readable>>
      BY <3>1 DEF States
    <3>2. CASE ~ UNCHANGED <<file, readable>>
      <4>1. PICK w \in Workflows, t \in Threads, q \in Requests, n \in ReviewSizes :
              file' = [st[Older] EXCEPT ![w] = Superseding(@, @, FinishedRound(@, t, q, n))]
        BY <1>30, <3>2 DEF OlderEnds
      <4>2. st[Older] \in States /\ readable' = TRUE
        BY <1>30, <3>2 DEF OlderEnds, States
      <4> DEFINE before == st[Older][w]
      <4>3. before \in Workflow \cup {NoWorkflow}
        BY <4>2 DEF States
      <4>4. FinishedRound(before, t, q, n) \in Workflow
        BY <4>3, FinishedRoundType
      <4>5. Superseding(before, before, FinishedRound(before, t, q, n)) \in Workflow
        BY <4>3, <4>4, SupersedingType
      <4>6. QED
        BY <4>1, <4>2, <4>5 DEF States
    <3>3. QED BY <3>1, <3>2
  <2>2. /\ slock' = Free /\ overtaken' \in BOOLEAN /\ st' = [st EXCEPT ![Older] = NoState]
        /\ UNCHANGED <<wlock, loaded, pc, live, req, wf, thread, done, pressure, outcome,
                       orphans, crashes, edits>>
    BY <1>30 DEF OlderEnds
  <2>3. QED
    BY <2>1, <2>2 DEF States
<1>31. ASSUME HandEdit PROVE Typed'
  <2>1. file' \in States /\ readable' \in BOOLEAN /\ edits' \in Nat
    <3>1. edits' \in Nat
      BY <1>31 DEF HandEdit
    <3>2. CASE readable' = ~ readable /\ UNCHANGED file
      BY <3>1, <3>2 DEF States
    <3>3. ASSUME NEW w \in Workflows, file' = [file EXCEPT ![w] = NoWorkflow],
                 UNCHANGED readable
          PROVE  file' \in States /\ readable' \in BOOLEAN
      BY <3>3 DEF States
    <3>4. QED
      BY <1>31, <3>1, <3>2, <3>3 DEF HandEdit, Present
  <2>2. /\ overtaken' \in BOOLEAN
        /\ UNCHANGED <<locks, loaded, pc, live, callData, outcome, orphans, crashes>>
    BY <1>31 DEF HandEdit
  <2>3. QED
    BY <2>1, <2>2 DEF States
<1>32. ASSUME UNCHANGED vars PROVE Typed'
  BY <1>32 DEF vars
<1>33. QED
  BY <1>1, <1>2, <1>3, <1>4, <1>5, <1>6, <1>7, <1>8, <1>9, <1>10, <1>11, <1>12, <1>13,
     <1>14, <1>15, <1>16, <1>17, <1>18, <1>19, <1>20, <1>21, <1>22, <1>23, <1>24, <1>25,
     <1>26, <1>27, <1>28, <1>29, <1>30, <1>31, <1>32
  DEF Next, CallStep, Environment

(* Every variable of the service keeps its type, and no step of a call     *)
(* runs without what the steps before it put into its frame.               *)
THEOREM TypeCorrect == Spec => []TypeOK
<1>1. Typed => TypeOK
  BY DEF Typed
<1>2. QED
  BY TypedInit, TypedStep, <1>1, PTL DEF Spec

-----------------------------------------------------------------------------
(* The locks: a call holds them through the steps between taking and       *)
(* releasing them, whatever ends it.                                       *)

Locks ==
  \A c \in Calls :
    /\ pc[c] \in LockedSteps => wlock[req[c].workflow] = c
    /\ pc[c] \in StateLockedSteps => slock = c

(* A call between taking a lock and its deferred release is the holder.    *)
LEMMA LocksStep == Typed /\ Locks /\ [Next]_vars => Locks'
<1> SUFFICES ASSUME Typed, Locks, [Next]_vars PROVE Locks'
  OBVIOUS
<1> USE ServiceAssumption
    DEF Typed, TypeOK, Frames, Locks, LockedSteps, StateLockedSteps, Goto, Return, Forget,
        locks, callData, env
<1>1. ASSUME NEW c \in Calls, Submit(c) PROVE Locks'
  BY <1>1 DEF Submit, Request
<1>2. ASSUME NEW c \in Calls, AcquireWorkflowLock(c) PROVE Locks'
  BY <1>2 DEF AcquireWorkflowLock, WorkflowLockFree, Request
<1>3. ASSUME NEW c \in Calls, WorkflowLockRefused(c) PROVE Locks'
  BY <1>3 DEF WorkflowLockRefused
<1>4. ASSUME NEW c \in Calls, AcquireStateLock(c) PROVE Locks'
  BY <1>4 DEF AcquireStateLock, StateLockFree
<1>5. ASSUME NEW c \in Calls, StateLockRefused(c) PROVE Locks'
  BY <1>5 DEF StateLockRefused
<1>6. ASSUME NEW c \in Calls, LoadWorkflow(c) PROVE Locks'
  BY <1>6 DEF LoadWorkflow
<1>7. ASSUME NEW c \in Calls, ReplayReview(c) PROVE Locks'
  BY <1>7 DEF ReplayReview
<1>8. ASSUME NEW c \in Calls, ValidateTarget(c) PROVE Locks'
  BY <1>8 DEF ValidateTarget
<1>9. ASSUME NEW c \in Calls, NewReviewer(c) PROVE Locks'
  BY <1>9 DEF NewReviewer
<1>10. ASSUME NEW c \in Calls, SetupFails(c) PROVE Locks'
  BY <1>10 DEF SetupFails
<1>11. ASSUME NEW c \in Calls, ResumeThread(c) PROVE Locks'
  BY <1>11 DEF ResumeThread
<1>12. ASSUME NEW c \in Calls, StartThread(c) PROVE Locks'
  BY <1>12 DEF StartThread
<1>13. ASSUME NEW c \in Calls, ReviewFails(c) PROVE Locks'
  BY <1>13 DEF ReviewFails
<1>14. ASSUME NEW c \in Calls, Review(c) PROVE Locks'
  BY <1>14 DEF Review
<1>15. ASSUME NEW c \in Calls, SaveCompleted(c) PROVE Locks'
  BY <1>15 DEF SaveCompleted
<1>16. ASSUME NEW c \in Calls, WriteAtomic(c) PROVE Locks'
  BY <1>16 DEF WriteAtomic
<1>17. ASSUME NEW c \in Calls, WriteFails(c) PROVE Locks'
  BY <1>17 DEF WriteFails
<1>18. ASSUME NEW c \in Calls, SaveTooLarge(c) PROVE Locks'
  BY <1>18 DEF SaveTooLarge
<1>19. ASSUME NEW c \in Calls, EvictRecord(c) PROVE Locks'
  BY <1>19 DEF EvictRecord, Evicting
<1>20. ASSUME NEW c \in Calls, SaveAgain(c) PROVE Locks'
  BY <1>20 DEF SaveAgain
<1>21. ASSUME NEW c \in Calls, EvictionFails(c) PROVE Locks'
  BY <1>21 DEF EvictionFails, Evicting
<1>22. ASSUME NEW c \in Calls, SyncDir(c) PROVE Locks'
  BY <1>22 DEF SyncDir
<1>23. ASSUME NEW c \in Calls, ReleaseStateLock(c) PROVE Locks'
  BY <1>23 DEF ReleaseStateLock
<1>24. ASSUME NEW c \in Calls, CloseReviewer(c) PROVE Locks'
  BY <1>24 DEF CloseReviewer
<1>25. ASSUME NEW c \in Calls, ReleaseWorkflowLock(c) PROVE Locks'
  BY <1>25 DEF ReleaseWorkflowLock, Request
<1>26. ASSUME NEW c \in Calls, Cancel(c) PROVE Locks'
  BY <1>26 DEF Cancel
<1>27. ASSUME NEW s \in Servers, Crash(s) PROVE Locks'
  BY <1>27 DEF Crash, Request
<1>28. ASSUME NEW t \in Threads, OrphanExits(t) PROVE Locks'
  BY <1>28 DEF OrphanExits
<1>29. ASSUME OlderBegins PROVE Locks'
  BY <1>29 DEF OlderBegins
<1>30. ASSUME OlderEnds PROVE Locks'
  BY <1>30 DEF OlderEnds
<1>31. ASSUME HandEdit PROVE Locks'
  BY <1>31 DEF HandEdit
<1>32. ASSUME UNCHANGED vars PROVE Locks'
  BY <1>32 DEF vars
<1>33. QED
  BY <1>1, <1>2, <1>3, <1>4, <1>5, <1>6, <1>7, <1>8, <1>9, <1>10, <1>11, <1>12, <1>13,
     <1>14, <1>15, <1>16, <1>17, <1>18, <1>19, <1>20, <1>21, <1>22, <1>23, <1>24, <1>25,
     <1>26, <1>27, <1>28, <1>29, <1>30, <1>31, <1>32
  DEF Next, CallStep, Environment

-----------------------------------------------------------------------------
(* What a save is about to replace the file with.                          *)

(* The entry was removed under the program that holds the state lock.      *)
Removed(w) == overtaken /\ file[w] = NoWorkflow

Trimmed(old, new) ==
  \/ old = NoWorkflow /\ new = NoWorkflow
  \/ old # NoWorkflow /\ new # NoWorkflow /\ DropsOldest(old, new)

Kept(old, new) ==
  old # NoWorkflow /\ new # NoWorkflow =>
    \A i \in DOMAIN new.history :
      \/ new.history[i].round = old.round
      \/ \E j \in DOMAIN old.history : old.history[j] = new.history[i]

(* The State a call is about to write, against the file, which only a      *)
(* human changes while the call holds the state lock: the round of the     *)
(* call's own workflow is the one it copied, and the completed round       *)
(* supersedes it; every other record is the one in the file, or that       *)
(* record without its oldest part, unless the human has removed it; and no *)
(* ledger holds what the file's does not.  Likewise for the State an older *)
(* Counterpoint holds.                                                     *)
Saves ==
  /\ overtaken => edits > 0
  /\ \A c \in Calls :
       pc[c] \in {"writing", "evicting"} =>
         /\ readable \/ overtaken
         /\ SameRound(file[req[c].workflow], wf[c]) \/ Removed(req[c].workflow)
         /\ SameRound(st[c][req[c].workflow], done[c])
         /\ \A w \in Workflows \ {req[c].workflow} : Trimmed(file[w], st[c][w]) \/ Removed(w)
         /\ \A w \in Workflows : Kept(file[w], st[c][w])
  /\ slock = Older /\ st[Older] # NoState =>
       /\ readable \/ overtaken
       /\ \A w \in Workflows : st[Older][w] = file[w] \/ Removed(w)

(* Replaying the same round is an equivalence of records.                  *)
LEMMA SameRoundEquivalence ==
  /\ \A a : SameRound(a, a)
  /\ \A a, b : SameRound(a, b) => SameRound(b, a)
  /\ \A a, b, c : SameRound(a, b) /\ SameRound(b, c) => SameRound(a, c)
BY DEF SameRound, SameReplayFields

(* Superseding changes the ledger of the completed round, and no more.     *)
LEMMA SupersedingSameRound ==
  ASSUME NEW before \in Workflow \cup {NoWorkflow},
         NEW fresh \in Workflow \cup {NoWorkflow}, NEW new \in Workflow,
         before # NoWorkflow => fresh # NoWorkflow
  PROVE  SameRound(Superseding(before, fresh, new), new)
<1>1. Superseding(before, fresh, new) \in Workflow
  BY SupersedingType
<1>2. SameReplayFields(Superseding(before, fresh, new), new)
  BY DEF Superseding, SameReplayFields, Workflow
<1>3. QED
  BY <1>1, <1>2, NoWorkflowAssumption DEF SameRound

(* Leaving a record alone drops nothing of it and adds nothing to it.      *)
LEMMA NothingTrimmed ==
  ASSUME NEW old \in Workflow \cup {NoWorkflow}
  PROVE  Trimmed(old, old) /\ Kept(old, old)
<1>1. Kept(old, old)
  BY DEF Kept
<1>2. ASSUME old # NoWorkflow PROVE DropsOldest(old, old)
  <2>1. old.history \in Seq(HistoryRecord) /\ old \in Workflow
    BY <1>2 DEF Workflow
  <2>2. 0 \in 0 .. Len(old.history) /\ DropOldest(old.history, 0) = old.history
    BY <2>1, DropNone
  <2>3. old = [old EXCEPT !.history = DropOldest(@, 0)]
    BY <2>1, <2>2 DEF Workflow
  <2>4. QED BY <2>2, <2>3 DEF DropsOldest
<1>3. QED
  BY <1>1, <1>2 DEF Trimmed

(* Evicting one more record drops the oldest part of the file's ledger.    *)
LEMMA TrimmedFurther ==
  ASSUME NEW old \in Workflow \cup {NoWorkflow}, NEW y \in Workflow,
         y.history # << >>, Trimmed(old, y)
  PROVE  Trimmed(old, [y EXCEPT !.history = Tail(@)])
<1> DEFINE x == [y EXCEPT !.history = Tail(@)]
<1>1. old \in Workflow /\ old # NoWorkflow /\ DropsOldest(old, y)
  BY NoWorkflowAssumption DEF Trimmed
<1>2. PICK k \in 0 .. Len(old.history) : y = [old EXCEPT !.history = DropOldest(@, k)]
  BY <1>1 DEF DropsOldest
<1>3. old.history \in Seq(HistoryRecord) /\ y.history = DropOldest(old.history, k)
  BY <1>1, <1>2 DEF Workflow
<1>4. /\ k + 1 \in 0 .. Len(old.history)
      /\ Tail(DropOldest(old.history, k)) = DropOldest(old.history, k + 1)
  BY <1>3, DropOneMore
<1>5. x = [old EXCEPT !.history = DropOldest(@, k + 1)]
  BY <1>1, <1>2, <1>3, <1>4 DEF Workflow
<1>6. x \in Workflow
  BY HeadTailProperties DEF Workflow
<1>7. x # NoWorkflow
  BY <1>6, NoWorkflowAssumption
<1>8. QED
  <2> HIDE DEF x
  <2>1. DropsOldest(old, x)
    BY <1>4, <1>5 DEF DropsOldest
  <2>2. QED BY <1>1, <1>7, <2>1 DEF x, Trimmed

(* Nor does an eviction put anything into a ledger.                        *)
LEMMA KeptFurther ==
  ASSUME NEW old, NEW y \in Workflow, y.history # << >>, Kept(old, y)
  PROVE  Kept(old, [y EXCEPT !.history = Tail(@)])
<1> DEFINE x == [y EXCEPT !.history = Tail(@)]
<1>1. y.history \in Seq(HistoryRecord) /\ x.history = Tail(y.history) /\ y # NoWorkflow
  BY NoWorkflowAssumption DEF Workflow
<1>2. /\ Tail(y.history) \in Seq(HistoryRecord)
      /\ Len(Tail(y.history)) = Len(y.history) - 1
      /\ \A i \in 1 .. Len(Tail(y.history)) : Tail(y.history)[i] = y.history[i + 1]
  BY <1>1, HeadTailProperties
<1>3. /\ Len(y.history) \in Nat /\ DOMAIN y.history = 1 .. Len(y.history)
      /\ DOMAIN x.history = 1 .. Len(y.history) - 1
  BY <1>1, <1>2, LenProperties
<1> HIDE DEF x
<1>4. \A i \in DOMAIN x.history : i + 1 \in DOMAIN y.history /\ x.history[i] = y.history[i + 1]
  BY <1>1, <1>2, <1>3
<1>5. Kept(old, x)
  BY <1>1, <1>4 DEF Kept
<1>6. QED
  BY <1>5 DEF x

(* The ledger of a new round holds records of the file's ledger and the    *)
(* superseded round, whatever the call's own copy of the ledger was.       *)
LEMMA SupersedingKept ==
  ASSUME NEW before \in Workflow \cup {NoWorkflow},
         NEW fresh \in Workflow \cup {NoWorkflow}, NEW new \in Workflow,
         SameRound(fresh, before)
  PROVE  Kept(fresh, Superseding(before, fresh, new))
<1> SUFFICES ASSUME fresh # NoWorkflow
             PROVE  Kept(fresh, Superseding(before, fresh, new))
  BY DEF Kept
<1>1. before # NoWorkflow /\ before \in Workflow /\ fresh \in Workflow
  BY DEF SameRound
<1>2. before.round = fresh.round /\ before.round \in Nat /\ before.review \in Nat
  BY <1>1 DEF SameRound, SameReplayFields, Workflow
<1> DEFINE p == NewHistoryRecord(before.round, before.review)
<1>3. p \in HistoryRecord /\ p.round = fresh.round
  BY <1>2, NewHistoryRecordType DEF NewHistoryRecord
<1>4. fresh.history \in Seq(HistoryRecord) /\ new.review \in Nat
  BY <1>1 DEF Workflow
<1> DEFINE h == RetainHistory(fresh.history, p, new.review)
<1> HIDE DEF p
<1>5. \A i \in DOMAIN h : h[i] = p \/ \E j \in DOMAIN fresh.history : fresh.history[j] = h[i]
  BY <1>3, <1>4, RetainHistoryKeeps
<1> HIDE DEF h
<1>6. Superseding(before, fresh, new).history = h
  BY <1>1 DEF Superseding, Workflow, p, h
<1>7. QED
  BY <1>3, <1>5, <1>6 DEF Kept

(* Only the holder of the state lock changes the file, so what it decoded  *)
(* there is still there when it replaces the file.                         *)
LEMMA SavesStep == Typed /\ Locks /\ Saves /\ [Next]_vars => Saves'
<1> SUFFICES ASSUME Typed, Locks, Saves, [Next]_vars PROVE Saves'
  OBVIOUS
<1> USE ServiceAssumption
    DEF Typed, TypeOK, Frames, Writers, Saves, Removed, Goto, Return, Forget, locks, callData, env
<1>1. ASSUME NEW c \in Calls, Submit(c) PROVE Saves'
  BY <1>1 DEF Submit
<1>2. ASSUME NEW c \in Calls, AcquireWorkflowLock(c) PROVE Saves'
  BY <1>2 DEF AcquireWorkflowLock
<1>3. ASSUME NEW c \in Calls, WorkflowLockRefused(c) PROVE Saves'
  BY <1>3 DEF WorkflowLockRefused
<1>4. ASSUME NEW c \in Calls, AcquireStateLock(c) PROVE Saves'
  BY <1>4 DEF AcquireStateLock
<1>5. ASSUME NEW c \in Calls, StateLockRefused(c) PROVE Saves'
  BY <1>5 DEF StateLockRefused
<1>6. ASSUME NEW c \in Calls, LoadWorkflow(c) PROVE Saves'
  <2>1. pc[c] = "loading" /\ slock = c /\ slock' = Free
    BY <1>6 DEF LoadWorkflow, Locks, StateLockedSteps
  <2>2. \A d \in Calls : pc[d] \notin {"writing", "evicting"}
    BY <2>1 DEF Locks, StateLockedSteps
  <2>3. ~ overtaken' /\ \A d \in Calls : pc'[d] \notin {"writing", "evicting"}
    BY <1>6, <2>2 DEF LoadWorkflow
  <2>4. QED
    BY <2>1, <2>3
<1>7. ASSUME NEW c \in Calls, ReplayReview(c) PROVE Saves'
  BY <1>7 DEF ReplayReview
<1>8. ASSUME NEW c \in Calls, ValidateTarget(c) PROVE Saves'
  BY <1>8 DEF ValidateTarget
<1>9. ASSUME NEW c \in Calls, NewReviewer(c) PROVE Saves'
  BY <1>9 DEF NewReviewer
<1>10. ASSUME NEW c \in Calls, SetupFails(c) PROVE Saves'
  BY <1>10 DEF SetupFails
<1>11. ASSUME NEW c \in Calls, ResumeThread(c) PROVE Saves'
  BY <1>11 DEF ResumeThread
<1>12. ASSUME NEW c \in Calls, StartThread(c) PROVE Saves'
  BY <1>12 DEF StartThread
<1>13. ASSUME NEW c \in Calls, ReviewFails(c) PROVE Saves'
  BY <1>13 DEF ReviewFails
<1>14. ASSUME NEW c \in Calls, Review(c) PROVE Saves'
  BY <1>14 DEF Review
<1>15. ASSUME NEW c \in Calls, SaveCompleted(c) PROVE Saves'
  <2> DEFINE w == req[c].workflow
             new == Superseding(wf[c], file[w], done[c])
  <2>1. /\ pc[c] = "saving" /\ w \in Workflows /\ done[c] \in Workflow
        /\ slock = c /\ UNCHANGED <<file, readable, slock, req, wf, done>> /\ ~ overtaken'
        /\ \A d \in Calls \ {c} : pc[d] \notin {"writing", "evicting"}
    BY <1>15 DEF SaveCompleted, Request, Locks, StateLockedSteps
  <2>2. CASE Decodes /\ Unchanged(c, file[w])
    <3>1. SameRound(file[w], wf[c])
      BY <2>2 DEF Unchanged, Known, SameRound
    <3>2. SameRound(new, done[c])
      BY <2>1, <2>2, SupersedingSameRound DEF Unchanged, Known
    <3>3. Kept(file[w], new)
      BY <2>1, <3>1, SupersedingKept
    <3>4. \A v \in Workflows : Trimmed(file[v], file[v]) /\ Kept(file[v], file[v])
      BY NothingTrimmed
    <3>5. /\ st' = [st EXCEPT ![c] = [file EXCEPT ![w] = new]]
          /\ pc' = [pc EXCEPT ![c] = "writing"] /\ readable
      BY <1>15, <2>2 DEF SaveCompleted, Decodes
    <3> HIDE DEF new
    <3>6. st'[c][w] = new /\ \A v \in Workflows \ {w} : st'[c][v] = file[v]
      BY <2>1, <3>5
    <3>7. /\ SameRound(st'[c][w], done[c])
          /\ \A v \in Workflows \ {w} : Trimmed(file[v], st'[c][v])
          /\ \A v \in Workflows : Kept(file[v], st'[c][v])
      BY <3>2, <3>3, <3>4, <3>6, Zenon
    <3>8. \A d \in Calls \ {c} : pc'[d] = pc[d]
      BY <3>5
    <3> HIDE DEF w
    <3>9. QED
      BY <2>1, <3>1, <3>5, <3>7, <3>8 DEF w
  <2>3. CASE ~ (Decodes /\ Unchanged(c, file[w]))
    BY <1>15, <2>1, <2>3 DEF SaveCompleted
  <2>4. QED BY <2>2, <2>3
<1>16. ASSUME NEW c \in Calls, WriteAtomic(c) PROVE Saves'
  <2>1. /\ pc[c] = "writing" /\ slock = c /\ pc' = [pc EXCEPT ![c] = "syncDir"]
    BY <1>16 DEF WriteAtomic, Locks, StateLockedSteps
  <2>2. \A d \in Calls : pc'[d] \notin {"writing", "evicting"}
    BY <2>1 DEF Locks, StateLockedSteps
  <2>3. slock' # Older /\ UNCHANGED <<edits, overtaken>>
    BY <1>16, <2>1 DEF WriteAtomic
  <2>4. QED BY <2>2, <2>3
<1>17. ASSUME NEW c \in Calls, WriteFails(c) PROVE Saves'
  BY <1>17 DEF WriteFails
<1>18. ASSUME NEW c \in Calls, SaveTooLarge(c) PROVE Saves'
  BY <1>18 DEF SaveTooLarge
<1>19. ASSUME NEW c \in Calls, EvictRecord(c) PROVE Saves'
  <2>1. /\ pc[c] = "evicting"
        /\ UNCHANGED <<file, readable, slock, pc, req, wf, done, edits, overtaken>>
    BY <1>19 DEF EvictRecord, Evicting
  <2>2. PICK w \in Largest(st[c]) : st' = [st EXCEPT ![c][w].history = Tail(@)]
    BY <1>19 DEF EvictRecord
  <2>3. /\ w \in Workflows /\ st[c] \in States
        /\ st[c][w] \in Workflow /\ st[c][w].history # << >>
    <3>1. st[c] \in States
      BY <2>1
    <3>2. QED BY <3>1 DEF Largest, Candidates, Present, States
  <2> DEFINE x == [st[c][w] EXCEPT !.history = Tail(@)]
  <2>4. x \in Workflow
    BY <2>3, HeadTailProperties DEF Workflow
  <2>5. SameRound(x, st[c][w])
    BY <2>3, <2>4, NoWorkflowAssumption DEF SameRound, SameReplayFields, Workflow
  <2>6. Trimmed(file[w], st[c][w]) => Trimmed(file[w], x)
    BY <2>3, TrimmedFurther
  <2>7. Kept(file[w], x)
    BY <2>1, <2>3, KeptFurther
  <2>8. st' = [st EXCEPT ![c] = [st[c] EXCEPT ![w] = x]]
    BY <2>2
  <2> HIDE DEF x
  <2>9. st'[c][w] = x /\ \A v \in Workflows \ {w} : st'[c][v] = st[c][v]
    BY <2>3, <2>8 DEF States
  <2>10. SameRound(st'[c][req[c].workflow], done[c])
    <3>1. SameRound(st[c][req[c].workflow], done[c]) /\ req[c].workflow \in Workflows
      BY <2>1 DEF Request
    <3>2. SameRound(st'[c][req[c].workflow], st[c][req[c].workflow])
      <4>1. CASE req[c].workflow = w
        BY <2>5, <2>9, <4>1
      <4>2. CASE req[c].workflow # w
        <5>1. st'[c][req[c].workflow] = st[c][req[c].workflow]
          BY <2>9, <3>1, <4>2
        <5>2. QED BY <5>1, SameRoundEquivalence, Zenon
      <4>3. QED BY <4>1, <4>2
    <3>3. QED BY <3>1, <3>2, SameRoundEquivalence, Zenon
  <2>11. /\ \A v \in Workflows \ {req[c].workflow} :
              Trimmed(file[v], st'[c][v]) \/ Removed(v)
         /\ \A v \in Workflows : Kept(file[v], st'[c][v])
    BY <2>1, <2>6, <2>7, <2>9
  <2>12. \A a \in Writers \ {c} : st'[a] = st[a]
    BY <2>8
  <2>13. QED
    BY <2>1, <2>10, <2>11, <2>12
<1>20. ASSUME NEW c \in Calls, SaveAgain(c) PROVE Saves'
  BY <1>20 DEF SaveAgain
<1>21. ASSUME NEW c \in Calls, EvictionFails(c) PROVE Saves'
  BY <1>21 DEF EvictionFails, Evicting
<1>22. ASSUME NEW c \in Calls, SyncDir(c) PROVE Saves'
  BY <1>22 DEF SyncDir
<1>23. ASSUME NEW c \in Calls, ReleaseStateLock(c) PROVE Saves'
  BY <1>23 DEF ReleaseStateLock, Locks, StateLockedSteps
<1>24. ASSUME NEW c \in Calls, CloseReviewer(c) PROVE Saves'
  BY <1>24 DEF CloseReviewer
<1>25. ASSUME NEW c \in Calls, ReleaseWorkflowLock(c) PROVE Saves'
  BY <1>25 DEF ReleaseWorkflowLock
<1>26. ASSUME NEW c \in Calls, Cancel(c) PROVE Saves'
  BY <1>26 DEF Cancel
<1>27. ASSUME NEW s \in Servers, Crash(s) PROVE Saves'
  BY <1>27 DEF Crash
<1>28. ASSUME NEW t \in Threads, OrphanExits(t) PROVE Saves'
  BY <1>28 DEF OrphanExits
<1>29. ASSUME OlderBegins PROVE Saves'
  BY <1>29 DEF OlderBegins, Decodes, Locks, StateLockedSteps
<1>30. ASSUME OlderEnds PROVE Saves'
  <2>1. \A d \in Calls : pc[d] \notin {"writing", "evicting"}
    BY <1>30 DEF OlderEnds, Locks, StateLockedSteps
  <2>2. slock' = Free /\ ~ overtaken' /\ UNCHANGED pc
    BY <1>30 DEF OlderEnds
  <2>3. QED BY <2>1, <2>2
<1>31. ASSUME HandEdit PROVE Saves'
  <2>1. edits' > 0 /\ UNCHANGED <<slock, pc, req, wf, done, st>>
    BY <1>31 DEF HandEdit
  <2>2. slock # Free => overtaken'
    BY <1>31, Zenon DEF HandEdit
  <2>3. \A w \in Workflows : file'[w] = file[w] \/ file'[w] = NoWorkflow
    BY <1>31 DEF HandEdit, Present
  <2>4. \A d \in Calls : pc[d] \in {"writing", "evicting"} => overtaken'
    BY <2>2 DEF Locks, StateLockedSteps
  <2>5. slock = Older => overtaken'
    BY <2>2
  <2>6. \A new : Kept(NoWorkflow, new)
    BY DEF Kept
  <2>7. ASSUME NEW w \in Workflows, NEW new, Kept(file[w], new) PROVE Kept(file'[w], new)
    <3>1. CASE file'[w] = file[w]
      BY ONLY <2>7, <3>1, Zenon
    <3>2. CASE file'[w] = NoWorkflow
      BY ONLY <2>6, <3>2, Zenon
    <3>3. QED
      BY <2>3, <3>1, <3>2
  <2>8. ASSUME NEW d \in Calls, pc[d] \in {"writing", "evicting"}
        PROVE  /\ overtaken' /\ SameRound(st[d][req[d].workflow], done[d])
               /\ SameRound(file'[req[d].workflow], wf[d]) \/ file'[req[d].workflow] = NoWorkflow
               /\ \A w \in Workflows \ {req[d].workflow} :
                    Trimmed(file'[w], st[d][w]) \/ file'[w] = NoWorkflow
               /\ \A w \in Workflows : Kept(file'[w], st[d][w])
    <3>1. req[d].workflow \in Workflows
      BY <2>8 DEF Request
    <3>2. QED
      BY <2>3, <2>4, <2>7, <2>8, <3>1
  <2>9. slock = Older /\ st[Older] # NoState =>
          \A w \in Workflows : st[Older][w] = file'[w] \/ file'[w] = NoWorkflow
    BY <2>3
  <2>10. QED
    BY <2>1, <2>5, <2>8, <2>9
<1>32. ASSUME UNCHANGED vars PROVE Saves'
  BY <1>32 DEF vars
<1>33. QED
  BY <1>1, <1>2, <1>3, <1>4, <1>5, <1>6, <1>7, <1>8, <1>9, <1>10, <1>11, <1>12, <1>13,
     <1>14, <1>15, <1>16, <1>17, <1>18, <1>19, <1>20, <1>21, <1>22, <1>23, <1>24, <1>25,
     <1>26, <1>27, <1>28, <1>29, <1>30, <1>31, <1>32
  DEF Next, CallStep, Environment

-----------------------------------------------------------------------------
(* What the locks are for.                                                 *)

CopySteps == {"target", "spawn", "thread", "turn", "save", "saving", "writing", "evicting"}

(* While no older Counterpoint and no human has touched the file: a call's *)
(* copy is current; and once written, the round it completed stays in the  *)
(* file until the call gives up the workflow lock.                         *)
Copies ==
  edits = 0 =>
    /\ slock # Older
    /\ \A c \in Calls :
         /\ pc[c] \in CopySteps => SameRound(file[req[c].workflow], wf[c])
         /\ outcome[c] = "review" => pc[c] \in {"stateUnlock", "close", "unlock"}
         /\ pc[c] = "syncDir" \/ outcome[c] = "review" =>
              SameRound(file[req[c].workflow], done[c])

(* Evicting from a ledger leaves its round.                                *)
LEMMA TrimmedSameRound ==
  ASSUME NEW old \in Workflow \cup {NoWorkflow}, NEW new, Trimmed(old, new)
  PROVE  SameRound(new, old)
<1>1. CASE old = NoWorkflow
  BY <1>1 DEF Trimmed, SameRound
<1>2. CASE old # NoWorkflow
  <2>1. old \in Workflow /\ new # NoWorkflow /\ DropsOldest(old, new)
    BY <1>2 DEF Trimmed
  <2>2. SameReplayFields(new, old)
    BY <2>1 DEF DropsOldest, SameReplayFields, Workflow
  <2>3. QED
    BY <1>2, <2>1, <2>2 DEF SameRound
<1>3. QED
  BY <1>1, <1>2

(* Only the holder of the workflow lock changes the round in the file, so  *)
(* the copies of every other call stay as they were.                       *)
LEMMA CopiesStep == Typed /\ Locks /\ Saves /\ Copies /\ [Next]_vars => Copies'
<1> SUFFICES ASSUME Typed, Locks, Saves, Copies, [Next]_vars, edits' = 0 PROVE Copies'
  BY DEF Copies
<1> USE ServiceAssumption
    DEF Typed, TypeOK, Frames, Copies, CopySteps, Goto, Return, Forget, locks, callData, env
<1>1. ASSUME NEW c \in Calls, Submit(c) PROVE Copies'
  BY <1>1 DEF Submit
<1>2. ASSUME NEW c \in Calls, AcquireWorkflowLock(c) PROVE Copies'
  BY <1>2 DEF AcquireWorkflowLock
<1>3. ASSUME NEW c \in Calls, WorkflowLockRefused(c) PROVE Copies'
  BY <1>3 DEF WorkflowLockRefused
<1>4. ASSUME NEW c \in Calls, AcquireStateLock(c) PROVE Copies'
  BY <1>4 DEF AcquireStateLock
<1>5. ASSUME NEW c \in Calls, StateLockRefused(c) PROVE Copies'
  BY <1>5 DEF StateLockRefused
<1>6. ASSUME NEW c \in Calls, LoadWorkflow(c) PROVE Copies'
  <2>1. edits = 0 /\ pc[c] = "loading"
    BY <1>6 DEF LoadWorkflow
  <2>2. CASE ~ Decodes \/ pc'[c] = "unlock"
    <3>1. /\ pc' = [pc EXCEPT ![c] = "unlock"] /\ slock' = Free
          /\ outcome' = [outcome EXCEPT ![c] = "failed"]
          /\ \A d \in Calls \ {c} : wf'[d] = wf[d]
          /\ UNCHANGED <<file, req, done, edits>>
      BY <1>6, <2>1, <2>2 DEF LoadWorkflow
    <3>2. pc'[c] = "unlock" /\ outcome'[c] = "failed"
      BY <3>1
    <3>3. \A d \in Calls \ {c} : pc'[d] = pc[d] /\ outcome'[d] = outcome[d]
      BY <3>1
    <3>4. QED
      BY <2>1, <3>1, <3>2, <3>3, ServiceAssumption
  <2>3. CASE Decodes /\ pc'[c] # "unlock"
    <3>1. /\ pc' = [pc EXCEPT ![c] = "target"] /\ slock' = Free
          /\ wf' = [wf EXCEPT ![c] = file[req[c].workflow]]
          /\ UNCHANGED <<file, req, done, st, outcome, edits>>
      BY <1>6, <2>3 DEF LoadWorkflow
    <3>2. QED
      BY <2>1, <3>1, SameRoundEquivalence
  <2>4. QED BY <2>2, <2>3
<1>7. ASSUME NEW c \in Calls, ReplayReview(c) PROVE Copies'
  BY <1>7 DEF ReplayReview
<1>8. ASSUME NEW c \in Calls, ValidateTarget(c) PROVE Copies'
  BY <1>8 DEF ValidateTarget
<1>9. ASSUME NEW c \in Calls, NewReviewer(c) PROVE Copies'
  BY <1>9 DEF NewReviewer
<1>10. ASSUME NEW c \in Calls, SetupFails(c) PROVE Copies'
  BY <1>10 DEF SetupFails
<1>11. ASSUME NEW c \in Calls, ResumeThread(c) PROVE Copies'
  BY <1>11 DEF ResumeThread
<1>12. ASSUME NEW c \in Calls, StartThread(c) PROVE Copies'
  BY <1>12 DEF StartThread
<1>13. ASSUME NEW c \in Calls, ReviewFails(c) PROVE Copies'
  BY <1>13 DEF ReviewFails
<1>14. ASSUME NEW c \in Calls, Review(c) PROVE Copies'
  <2>1. /\ pc[c] = "turn" /\ pc' = [pc EXCEPT ![c] = "save"]
        /\ UNCHANGED <<file, slock, req, wf, st, outcome, edits>>
    BY <1>14 DEF Review
  <2>2. done' = [done EXCEPT ![c] = done'[c]] /\ done'[c] \in Workflow
    <3>1. PICK n \in ReviewSizes :
            done' = [done EXCEPT ![c] = FinishedRound(wf[c], thread[c], req[c].hash, n)]
      BY <1>14 DEF Review
    <3>2. FinishedRound(wf[c], thread[c], req[c].hash, n) \in Workflow
      BY <2>1, FinishedRoundType DEF Request
    <3>3. QED BY <3>1, <3>2
  <2>3. outcome[c] # "review"
    BY <2>1
  <2>4. QED
    BY <2>1, <2>2, <2>3
<1>15. ASSUME NEW c \in Calls, SaveCompleted(c) PROVE Copies'
  BY <1>15 DEF SaveCompleted
<1>16. ASSUME NEW c \in Calls, WriteAtomic(c) PROVE Copies'
  <2> DEFINE w == req[c].workflow
  <2>1. /\ edits = 0 /\ pc[c] = "writing" /\ w \in Workflows /\ slock = c
        /\ file' = st[c] /\ pc' = [pc EXCEPT ![c] = "syncDir"]
        /\ UNCHANGED <<slock, req, wf, done, st, outcome, edits>>
    BY <1>16 DEF WriteAtomic, Request, Locks, StateLockedSteps
  <2>2. \A d \in Calls \ {c} : pc[d] \notin {"writing", "evicting", "syncDir", "stateUnlock"}
    BY <2>1 DEF Locks, StateLockedSteps
  <2>3. \A d \in Calls \ {c} : pc[d] \in LockedSteps => req[d].workflow \in Workflows \ {w}
    BY <2>1 DEF Locks, LockedSteps, Request
  <2>4. \A v \in Workflows \ {w} : SameRound(file'[v], file[v])
    <3>1. ~ overtaken
      BY <2>1 DEF Saves
    <3>2. \A v \in Workflows \ {w} : Trimmed(file[v], st[c][v])
      BY <2>1, <3>1 DEF Saves, Removed
    <3>3. QED
      BY <2>1, <3>2, TrimmedSameRound
  <2>5. SameRound(file'[w], done[c])
    BY <2>1 DEF Saves
  <2>6. ASSUME NEW d \in Calls \ {c}
        PROVE  /\ pc[d] \in CopySteps => SameRound(file'[req[d].workflow], wf[d])
               /\ outcome[d] = "review" => SameRound(file'[req[d].workflow], done[d])
    <3>1. CASE pc[d] \in LockedSteps
      <4>1. SameRound(file'[req[d].workflow], file[req[d].workflow])
        BY <2>3, <2>4, <3>1
      <4>2. ASSUME pc[d] \in CopySteps
            PROVE  SameRound(file'[req[d].workflow], wf[d])
        <5>1. SameRound(file[req[d].workflow], wf[d])
          BY <2>1, <4>2
        <5>2. QED BY <4>1, <5>1, SameRoundEquivalence, Zenon
      <4>3. ASSUME outcome[d] = "review"
            PROVE  SameRound(file'[req[d].workflow], done[d])
        <5>1. SameRound(file[req[d].workflow], done[d])
          BY <2>1, <4>3
        <5>2. QED BY <4>1, <5>1, SameRoundEquivalence, Zenon
      <4>4. QED
        BY <4>2, <4>3
    <3>2. CASE pc[d] \notin LockedSteps
      BY <2>1, <3>2 DEF LockedSteps
    <3>3. QED BY <3>1, <3>2
  <2>7. QED
    BY <2>1, <2>2, <2>5, <2>6
<1>17. ASSUME NEW c \in Calls, WriteFails(c) PROVE Copies'
  BY <1>17 DEF WriteFails
<1>18. ASSUME NEW c \in Calls, SaveTooLarge(c) PROVE Copies'
  BY <1>18 DEF SaveTooLarge
<1>19. ASSUME NEW c \in Calls, EvictRecord(c) PROVE Copies'
  BY <1>19 DEF EvictRecord, Evicting
<1>20. ASSUME NEW c \in Calls, SaveAgain(c) PROVE Copies'
  BY <1>20 DEF SaveAgain
<1>21. ASSUME NEW c \in Calls, EvictionFails(c) PROVE Copies'
  BY <1>21 DEF EvictionFails, Evicting
<1>22. ASSUME NEW c \in Calls, SyncDir(c) PROVE Copies'
  BY <1>22 DEF SyncDir
<1>23. ASSUME NEW c \in Calls, ReleaseStateLock(c) PROVE Copies'
  BY <1>23 DEF ReleaseStateLock
<1>24. ASSUME NEW c \in Calls, CloseReviewer(c) PROVE Copies'
  BY <1>24 DEF CloseReviewer
<1>25. ASSUME NEW c \in Calls, ReleaseWorkflowLock(c) PROVE Copies'
  BY <1>25 DEF ReleaseWorkflowLock
<1>26. ASSUME NEW c \in Calls, Cancel(c) PROVE Copies'
  BY <1>26 DEF Cancel
<1>27. ASSUME NEW s \in Servers, Crash(s) PROVE Copies'
  BY <1>27 DEF Crash
<1>28. ASSUME NEW t \in Threads, OrphanExits(t) PROVE Copies'
  BY <1>28 DEF OrphanExits
<1>29. ASSUME OlderBegins PROVE Copies'
  BY <1>29 DEF OlderBegins
<1>30. ASSUME OlderEnds PROVE Copies'
  BY <1>30 DEF OlderEnds
<1>31. ASSUME HandEdit PROVE Copies'
  BY <1>31 DEF HandEdit
<1>32. ASSUME UNCHANGED vars PROVE Copies'
  BY <1>32 DEF vars
<1>33. QED
  BY <1>1, <1>2, <1>3, <1>4, <1>5, <1>6, <1>7, <1>8, <1>9, <1>10, <1>11, <1>12, <1>13,
     <1>14, <1>15, <1>16, <1>17, <1>18, <1>19, <1>20, <1>21, <1>22, <1>23, <1>24, <1>25,
     <1>26, <1>27, <1>28, <1>29, <1>30, <1>31, <1>32
  DEF Next, CallStep, Environment

-----------------------------------------------------------------------------
(* What is written is valid, whoever writes it.                            *)

Validity ==
  /\ \A w \in Workflows : Valid(file[w])
  /\ \A c \in Calls :
       /\ pc[c] \in {"save", "saving"} =>
            /\ done[c].round = RoundAfter(wf[c])
            /\ done[c].review # 0
            /\ done[c].history = << >>
       /\ pc[c] \in {"writing", "evicting"} => \A w \in Workflows : Valid(st[c][w])
  /\ st[Older] # NoState => \A w \in Workflows : Valid(st[Older][w])

(* A completed round on a valid record makes a valid record, also when the *)
(* ledger it grows has lost records since the round began.                 *)
LEMMA SupersedingValid ==
  ASSUME NEW before \in Workflow \cup {NoWorkflow},
         NEW fresh \in Workflow \cup {NoWorkflow}, NEW new \in Workflow,
         before # NoWorkflow => fresh # NoWorkflow /\ SameReplayFields(fresh, before),
         Valid(fresh),
         new.round = RoundAfter(before), new.review # 0, new.history = << >>
  PROVE  Valid(Superseding(before, fresh, new))
<1>1. CASE before = NoWorkflow
  <2>1. new.round \in Nat \ {0} /\ new.review \in Nat \ {0}
    BY <1>1 DEF RoundAfter, Workflow
  <2>2. QED
    BY <1>1, <2>1, NoHistoryValid DEF Superseding, Valid
<1>2. CASE before # NoWorkflow
  <2>1. fresh \in Workflow /\ before \in Workflow
    BY <1>2
  <2>2. before.round = fresh.round /\ before.review = fresh.review
    BY <1>2 DEF SameReplayFields
  <2> DEFINE x == Superseding(before, fresh, new)
  <2>3. /\ x.round = fresh.round + 1
        /\ x.review = new.review /\ new.review \in Nat \ {0}
        /\ x.history = RetainHistory(fresh.history,
                         NewHistoryRecord(fresh.round, fresh.review), x.review)
    BY <1>2, <2>1, <2>2 DEF Superseding, RoundAfter, Workflow
  <2>4. ~ Incomplete(fresh) /\ ~ InvalidHistory(fresh)
    BY <1>2 DEF Valid
  <2>5. fresh.history \in Seq(HistoryRecord) /\ fresh.round \in Nat /\ fresh.review \in Nat
    BY <2>1 DEF Workflow
  <2> HIDE DEF x
  <2>6. ~ Incomplete(x) /\ ~ InvalidHistory(x)
    BY <2>3, <2>4, <2>5, RetainHistoryValid
  <2>7. QED
    BY <2>6 DEF x, Valid
<1>3. QED
  BY <1>1, <1>2

(* A completed round is complete, and has no ledger before it is saved.    *)
LEMMA FinishedRoundFresh ==
  ASSUME NEW before, NEW t, NEW q, NEW n \in ReviewSizes
  PROVE  /\ FinishedRound(before, t, q, n).round = RoundAfter(before)
         /\ FinishedRound(before, t, q, n).review # 0
         /\ FinishedRound(before, t, q, n).history = << >>
BY ServiceAssumption DEF FinishedRound

(* Saving and evicting leave only records that loading accepts.            *)
LEMMA ValidityStep == Typed /\ Validity /\ [Next]_vars => Validity'
<1> SUFFICES ASSUME Typed, Validity, [Next]_vars PROVE Validity'
  OBVIOUS
<1> USE ServiceAssumption
    DEF Typed, TypeOK, Frames, Writers, Validity, Goto, Return, Forget, locks, callData, env
<1>1. ASSUME NEW c \in Calls, Submit(c) PROVE Validity'
  BY <1>1 DEF Submit
<1>2. ASSUME NEW c \in Calls, AcquireWorkflowLock(c) PROVE Validity'
  BY <1>2 DEF AcquireWorkflowLock
<1>3. ASSUME NEW c \in Calls, WorkflowLockRefused(c) PROVE Validity'
  BY <1>3 DEF WorkflowLockRefused
<1>4. ASSUME NEW c \in Calls, AcquireStateLock(c) PROVE Validity'
  BY <1>4 DEF AcquireStateLock
<1>5. ASSUME NEW c \in Calls, StateLockRefused(c) PROVE Validity'
  BY <1>5 DEF StateLockRefused
<1>6. ASSUME NEW c \in Calls, LoadWorkflow(c) PROVE Validity'
  <2>1. /\ pc[c] = "loading"
        /\ pc' = [pc EXCEPT ![c] = "unlock"] \/ pc' = [pc EXCEPT ![c] = "target"]
        /\ UNCHANGED <<file, done, st>>
    BY <1>6 DEF LoadWorkflow
  <2>2. \A d \in Calls \ {c} : wf'[d] = wf[d]
    BY <1>6 DEF LoadWorkflow
  <2>3. QED
    BY <2>1, <2>2
<1>7. ASSUME NEW c \in Calls, ReplayReview(c) PROVE Validity'
  BY <1>7 DEF ReplayReview
<1>8. ASSUME NEW c \in Calls, ValidateTarget(c) PROVE Validity'
  BY <1>8 DEF ValidateTarget
<1>9. ASSUME NEW c \in Calls, NewReviewer(c) PROVE Validity'
  BY <1>9 DEF NewReviewer
<1>10. ASSUME NEW c \in Calls, SetupFails(c) PROVE Validity'
  BY <1>10 DEF SetupFails
<1>11. ASSUME NEW c \in Calls, ResumeThread(c) PROVE Validity'
  BY <1>11 DEF ResumeThread
<1>12. ASSUME NEW c \in Calls, StartThread(c) PROVE Validity'
  BY <1>12 DEF StartThread
<1>13. ASSUME NEW c \in Calls, ReviewFails(c) PROVE Validity'
  BY <1>13 DEF ReviewFails
<1>14. ASSUME NEW c \in Calls, Review(c) PROVE Validity'
  <2>1. /\ pc[c] = "turn" /\ pc' = [pc EXCEPT ![c] = "save"]
        /\ UNCHANGED <<file, wf, st>>
    BY <1>14 DEF Review
  <2>2. PICK n \in ReviewSizes :
          done' = [done EXCEPT ![c] = FinishedRound(wf[c], thread[c], req[c].hash, n)]
    BY <1>14 DEF Review
  <2>3. done'[c] = FinishedRound(wf[c], thread[c], req[c].hash, n)
    BY <2>2
  <2>4. /\ done'[c].round = RoundAfter(wf[c])
        /\ done'[c].review # 0
        /\ done'[c].history = << >>
    BY ONLY <2>3, FinishedRoundFresh
  <2>5. QED
    BY <2>1, <2>2, <2>4
<1>15. ASSUME NEW c \in Calls, SaveCompleted(c) PROVE Validity'
  <2> DEFINE w == req[c].workflow
             new == Superseding(wf[c], file[w], done[c])
  <2>1. /\ pc[c] = "saving" /\ w \in Workflows /\ done[c] \in Workflow
        /\ UNCHANGED <<file, wf, done>>
    BY <1>15 DEF SaveCompleted, Request
  <2>2. CASE Decodes /\ Unchanged(c, file[w])
    <3>1. Valid(new)
      BY <2>1, <2>2, SupersedingValid DEF Unchanged, Known
    <3>2. /\ st' = [st EXCEPT ![c] = [file EXCEPT ![w] = new]]
          /\ pc' = [pc EXCEPT ![c] = "writing"]
      BY <1>15, <2>2 DEF SaveCompleted
    <3> HIDE DEF new
    <3>3. \A v \in Workflows : Valid(st'[c][v])
      BY <2>1, <3>1, <3>2
    <3>4. \A x \in Writers \ {c} : st'[x] = st[x]
      BY <3>2
    <3>5. QED
      BY <2>1, <3>2, <3>3, <3>4
  <2>3. CASE ~ (Decodes /\ Unchanged(c, file[w]))
    BY <1>15, <2>1, <2>3 DEF SaveCompleted
  <2>4. QED BY <2>2, <2>3
<1>16. ASSUME NEW c \in Calls, WriteAtomic(c) PROVE Validity'
  BY <1>16 DEF WriteAtomic
<1>17. ASSUME NEW c \in Calls, WriteFails(c) PROVE Validity'
  BY <1>17 DEF WriteFails
<1>18. ASSUME NEW c \in Calls, SaveTooLarge(c) PROVE Validity'
  BY <1>18 DEF SaveTooLarge
<1>19. ASSUME NEW c \in Calls, EvictRecord(c) PROVE Validity'
  <2>1. /\ pc[c] = "evicting" /\ UNCHANGED <<file, pc, wf, done>>
    BY <1>19 DEF EvictRecord, Evicting
  <2>2. PICK w \in Largest(st[c]) : st' = [st EXCEPT ![c][w].history = Tail(@)]
    BY <1>19 DEF EvictRecord
  <2>3. /\ w \in Workflows /\ st[c] \in States
        /\ st[c][w] \in Workflow /\ st[c][w].history # << >> /\ st[c][w] # NoWorkflow
    <3>1. st[c] \in States
      BY <2>1
    <3>2. QED BY <3>1 DEF Largest, Candidates, Present, States
  <2> DEFINE x == [st[c][w] EXCEPT !.history = Tail(@)]
  <2>4. Valid(x)
    <3>1. ~ Incomplete(st[c][w]) /\ ~ InvalidHistory(st[c][w])
      BY <2>1, <2>3 DEF Valid
    <3>2. /\ st[c][w].history \in Seq(HistoryRecord)
          /\ st[c][w].round \in Nat /\ st[c][w].review \in Nat
      BY <2>3 DEF Workflow
    <3>3. /\ x.round = st[c][w].round /\ x.review = st[c][w].review
          /\ x.history = Tail(st[c][w].history)
      BY <2>3 DEF Workflow
    <3> HIDE DEF x
    <3>4. ~ InvalidHistory(x)
      BY <2>3, <3>1, <3>2, <3>3, TailValid
    <3>5. ~ Incomplete(x)
      BY <3>1, <3>3 DEF Incomplete
    <3>6. QED BY <3>4, <3>5 DEF Valid
  <2>5. st' = [st EXCEPT ![c] = [st[c] EXCEPT ![w] = x]]
    BY <2>2
  <2> HIDE DEF x
  <2>6. \A v \in Workflows : Valid(st'[c][v])
    BY <2>1, <2>3, <2>4, <2>5 DEF States
  <2>7. \A a \in Writers \ {c} : st'[a] = st[a]
    BY <2>5
  <2>8. QED
    BY <2>1, <2>6, <2>7
<1>20. ASSUME NEW c \in Calls, SaveAgain(c) PROVE Validity'
  BY <1>20 DEF SaveAgain
<1>21. ASSUME NEW c \in Calls, EvictionFails(c) PROVE Validity'
  BY <1>21 DEF EvictionFails, Evicting
<1>22. ASSUME NEW c \in Calls, SyncDir(c) PROVE Validity'
  BY <1>22 DEF SyncDir
<1>23. ASSUME NEW c \in Calls, ReleaseStateLock(c) PROVE Validity'
  BY <1>23 DEF ReleaseStateLock
<1>24. ASSUME NEW c \in Calls, CloseReviewer(c) PROVE Validity'
  BY <1>24 DEF CloseReviewer
<1>25. ASSUME NEW c \in Calls, ReleaseWorkflowLock(c) PROVE Validity'
  BY <1>25 DEF ReleaseWorkflowLock
<1>26. ASSUME NEW c \in Calls, Cancel(c) PROVE Validity'
  BY <1>26 DEF Cancel
<1>27. ASSUME NEW s \in Servers, Crash(s) PROVE Validity'
  BY <1>27 DEF Crash
<1>28. ASSUME NEW t \in Threads, OrphanExits(t) PROVE Validity'
  BY <1>28 DEF OrphanExits
<1>29. ASSUME OlderBegins PROVE Validity'
  BY <1>29 DEF OlderBegins
<1>30. ASSUME OlderEnds PROVE Validity'
  <2>1. UNCHANGED <<pc, wf, done>> /\ st' = [st EXCEPT ![Older] = NoState]
    BY <1>30 DEF OlderEnds
  <2>2. \A v \in Workflows : Valid(file'[v])
    <3>1. CASE UNCHANGED file
      BY <3>1
    <3>2. CASE ~ UNCHANGED file
      <4>1. PICK w \in Workflows, t \in Threads, q \in Requests, n \in ReviewSizes :
              file' = [st[Older] EXCEPT ![w] = Superseding(@, @, FinishedRound(@, t, q, n))]
        BY <1>30, <3>2 DEF OlderEnds
      <4>2. st[Older] # NoState /\ st[Older] \in States
        BY <1>30, <3>2 DEF OlderEnds, States
      <4> DEFINE before == st[Older][w]
                 f == FinishedRound(before, t, q, n)
      <4>3. before \in Workflow \cup {NoWorkflow} /\ Valid(before)
        BY <4>2 DEF States
      <4>4. f \in Workflow
        BY <4>3, FinishedRoundType
      <4>5. f.round = RoundAfter(before) /\ f.review # 0 /\ f.history = << >>
        BY FinishedRoundFresh
      <4> HIDE DEF f, before
      <4>6. Valid(Superseding(before, before, f))
        BY <4>3, <4>4, <4>5, SupersedingValid DEF SameReplayFields
      <4>7. file' = [st[Older] EXCEPT ![w] = Superseding(before, before, f)]
        BY <4>1 DEF f, before
      <4>8. QED
        BY <4>2, <4>6, <4>7 DEF States
    <3>3. QED BY <3>1, <3>2
  <2>3. QED
    BY <2>1, <2>2
<1>31. ASSUME HandEdit PROVE Validity'
  <2>1. UNCHANGED <<pc, wf, done, st>>
    BY <1>31 DEF HandEdit
  <2>2. \A v \in Workflows : file'[v] = file[v] \/ file'[v] = NoWorkflow
    BY <1>31 DEF HandEdit, Present
  <2>3. QED
    BY <2>1, <2>2 DEF Valid
<1>32. ASSUME UNCHANGED vars PROVE Validity'
  BY <1>32 DEF vars
<1>33. QED
  BY <1>1, <1>2, <1>3, <1>4, <1>5, <1>6, <1>7, <1>8, <1>9, <1>10, <1>11, <1>12, <1>13,
     <1>14, <1>15, <1>16, <1>17, <1>18, <1>19, <1>20, <1>21, <1>22, <1>23, <1>24, <1>25,
     <1>26, <1>27, <1>28, <1>29, <1>30, <1>31, <1>32
  DEF Next, CallStep, Environment

-----------------------------------------------------------------------------
(* The eviction loop works from an estimate: what it has counted as freed  *)
(* is at least what it has freed, so the State exceeds the limit by no     *)
(* less than what the loop still has to free (review.go,                   *)
(* saveEvictingHistory).                                                   *)
Estimate ==
  \A c \in Calls :
    pc[c] = "evicting" =>
      /\ EncodedBytes(st[c]) + pressure[c].freed >= StateLimit + pressure[c].over
      /\ pressure[c].over > 0
      /\ ~ pressure[c].evicted => pressure[c].freed = 0

(* A call that evicts once more has a State that is too large.             *)
LEMMA EvictingIsTooLarge ==
  ASSUME Typed, Estimate, NEW c \in Calls, Evicting(c)
  PROVE  TooLarge(st[c])
<1>1. /\ EncodedBytes(st[c]) + pressure[c].freed >= StateLimit + pressure[c].over
      /\ pressure[c].freed < pressure[c].over
  BY DEF Estimate, Evicting
<1>2. st[c] \in States
  BY DEF Typed, Frames, Evicting
<1>3. EncodedBytes(st[c]) \in Nat
  BY <1>2, StateSize
<1>4. pressure[c].freed \in Nat /\ pressure[c].over \in Nat /\ StateLimit \in Nat
  BY ServiceAssumption DEF Typed, TypeOK
<1>5. QED
  BY <1>1, <1>3, <1>4 DEF TooLarge

(* Counting a record adds at least what removing it frees.                 *)
LEMMA EstimateStep == Typed /\ Estimate /\ [Next]_vars => Estimate'
<1> SUFFICES ASSUME Typed, Estimate, [Next]_vars PROVE Estimate'
  OBVIOUS
<1> USE ServiceAssumption
    DEF Typed, TypeOK, Frames, Writers, Estimate, Goto, Return, Forget, locks, callData, env
<1>1. ASSUME NEW c \in Calls, Submit(c) PROVE Estimate'
  BY <1>1 DEF Submit
<1>2. ASSUME NEW c \in Calls, AcquireWorkflowLock(c) PROVE Estimate'
  BY <1>2 DEF AcquireWorkflowLock
<1>3. ASSUME NEW c \in Calls, WorkflowLockRefused(c) PROVE Estimate'
  BY <1>3 DEF WorkflowLockRefused
<1>4. ASSUME NEW c \in Calls, AcquireStateLock(c) PROVE Estimate'
  BY <1>4 DEF AcquireStateLock
<1>5. ASSUME NEW c \in Calls, StateLockRefused(c) PROVE Estimate'
  BY <1>5 DEF StateLockRefused
<1>6. ASSUME NEW c \in Calls, LoadWorkflow(c) PROVE Estimate'
  BY <1>6 DEF LoadWorkflow
<1>7. ASSUME NEW c \in Calls, ReplayReview(c) PROVE Estimate'
  BY <1>7 DEF ReplayReview
<1>8. ASSUME NEW c \in Calls, ValidateTarget(c) PROVE Estimate'
  BY <1>8 DEF ValidateTarget
<1>9. ASSUME NEW c \in Calls, NewReviewer(c) PROVE Estimate'
  BY <1>9 DEF NewReviewer
<1>10. ASSUME NEW c \in Calls, SetupFails(c) PROVE Estimate'
  BY <1>10 DEF SetupFails
<1>11. ASSUME NEW c \in Calls, ResumeThread(c) PROVE Estimate'
  BY <1>11 DEF ResumeThread
<1>12. ASSUME NEW c \in Calls, StartThread(c) PROVE Estimate'
  BY <1>12 DEF StartThread
<1>13. ASSUME NEW c \in Calls, ReviewFails(c) PROVE Estimate'
  BY <1>13 DEF ReviewFails
<1>14. ASSUME NEW c \in Calls, Review(c) PROVE Estimate'
  BY <1>14 DEF Review
<1>15. ASSUME NEW c \in Calls, SaveCompleted(c) PROVE Estimate'
  BY <1>15 DEF SaveCompleted
<1>16. ASSUME NEW c \in Calls, WriteAtomic(c) PROVE Estimate'
  BY <1>16 DEF WriteAtomic
<1>17. ASSUME NEW c \in Calls, WriteFails(c) PROVE Estimate'
  BY <1>17 DEF WriteFails
<1>18. ASSUME NEW c \in Calls, SaveTooLarge(c) PROVE Estimate'
  <2>1. /\ pc[c] = "writing" /\ TooLarge(st[c]) /\ UNCHANGED st
        /\ pc' = [pc EXCEPT ![c] = "evicting"]
        /\ pressure' = [pressure EXCEPT ![c] =
             [over |-> EncodedBytes(st[c]) - StateLimit, freed |-> 0, evicted |-> FALSE]]
    BY <1>18 DEF SaveTooLarge
  <2>2. EncodedBytes(st[c]) \in Nat
    BY <2>1, StateSize
  <2>3. /\ pressure'[c].over = EncodedBytes(st[c]) - StateLimit
        /\ pressure'[c].freed = 0
    BY <2>1
  <2>4. /\ EncodedBytes(st'[c]) + pressure'[c].freed >= StateLimit + pressure'[c].over
        /\ pressure'[c].over > 0
    BY <2>1, <2>2, <2>3 DEF TooLarge
  <2>5. \A d \in Calls \ {c} : pc'[d] = pc[d] /\ pressure'[d] = pressure[d] /\ st'[d] = st[d]
    BY <2>1
  <2>6. QED
    BY <2>3, <2>4, <2>5
<1>19. ASSUME NEW c \in Calls, EvictRecord(c) PROVE Estimate'
  <2>1. pc[c] = "evicting" /\ UNCHANGED pc
    BY <1>19 DEF EvictRecord, Evicting
  <2>2. PICK w \in Largest(st[c]) :
          /\ st' = [st EXCEPT ![c][w].history = Tail(@)]
          /\ pressure' = [pressure EXCEPT ![c] =
               [over |-> @.over, evicted |-> TRUE,
                freed |-> @.freed + HistoryRecordBytes(Head(st[c][w].history))]]
    BY <1>19 DEF EvictRecord
  <2>3. /\ w \in Workflows /\ st[c] \in States
        /\ st[c][w] \in Workflow /\ st[c][w].history # << >> /\ st[c][w] # NoWorkflow
    <3>1. st[c] \in States
      BY <2>1
    <3>2. QED BY <3>1 DEF Largest, Candidates, Present, States
  <2> DEFINE x == [st[c][w] EXCEPT !.history = Tail(@)]
  <2>4. x \in Workflow /\ x.review = st[c][w].review /\ x.history = Tail(st[c][w].history)
    BY <2>3, HeadTailProperties DEF Workflow
  <2>5. st' = [st EXCEPT ![c] = [st[c] EXCEPT ![w] = x]]
    BY <2>2
  <2> HIDE DEF x
  <2>6. /\ st'[c] \in States /\ st'[c][w] = x
        /\ \A v \in Workflows \ {w} : st'[c][v] = st[c][v]
    BY <2>3, <2>4, <2>5 DEF States
  <2>7. EncodedBytes(st[c]) <=
          EncodedBytes(st'[c]) + HistoryRecordBytes(Head(st[c][w].history))
    <3>1. /\ DOMAIN st[c] = Workflows /\ DOMAIN st'[c] = Workflows
          /\ IsFiniteSet(DOMAIN st[c])
      BY <2>3, <2>6 DEF States
    <3>2. \A v \in DOMAIN st[c] : st[c][v] # NoWorkflow =>
            st[c][v].history \in Seq(HistoryRecord) /\ st[c][v].review \in Nat
      BY <2>3 DEF States, Workflow
    <3>3. st'[c][w] # NoWorkflow
      BY <2>4, <2>6, NoWorkflowAssumption
    <3>4. QED
      BY <2>3, <2>4, <2>6, <3>1, <3>2, <3>3, EvictionEstimate
  <2>8. /\ EncodedBytes(st[c]) \in Nat /\ EncodedBytes(st'[c]) \in Nat
        /\ HistoryRecordBytes(Head(st[c][w].history)) \in Nat
    <3>1. Head(st[c][w].history) \in HistoryRecord
      BY <2>3, HeadTailProperties DEF Workflow
    <3>2. HistoryRecordBytes(Head(st[c][w].history)) \in Nat
      BY <3>1, LedgerAssumption DEF HistoryRecordBytes, HistoryRecord
    <3>3. QED BY <2>3, <2>6, <3>2, StateSize
  <2>9. /\ pressure'[c].over = pressure[c].over
        /\ pressure'[c].freed =
             pressure[c].freed + HistoryRecordBytes(Head(st[c][w].history))
        /\ pressure'[c].evicted
    BY <2>2
  <2>10. EncodedBytes(st'[c]) + pressure'[c].freed >= StateLimit + pressure'[c].over
    <3>1. EncodedBytes(st[c]) + pressure[c].freed >= StateLimit + pressure[c].over
      BY <2>1
    <3>2. pressure[c].freed \in Nat /\ pressure[c].over \in Nat
      OBVIOUS
    <3>3. QED BY <2>7, <2>8, <2>9, <3>1, <3>2
  <2>11. pressure'[c].over > 0
    BY <2>1, <2>9
  <2>12. \A d \in Calls \ {c} : pressure'[d] = pressure[d] /\ st'[d] = st[d]
    BY <2>2, <2>5
  <2>13. QED
    BY <2>1, <2>9, <2>10, <2>11, <2>12
<1>20. ASSUME NEW c \in Calls, SaveAgain(c) PROVE Estimate'
  BY <1>20 DEF SaveAgain
<1>21. ASSUME NEW c \in Calls, EvictionFails(c) PROVE Estimate'
  BY <1>21 DEF EvictionFails, Evicting
<1>22. ASSUME NEW c \in Calls, SyncDir(c) PROVE Estimate'
  BY <1>22 DEF SyncDir
<1>23. ASSUME NEW c \in Calls, ReleaseStateLock(c) PROVE Estimate'
  BY <1>23 DEF ReleaseStateLock
<1>24. ASSUME NEW c \in Calls, CloseReviewer(c) PROVE Estimate'
  BY <1>24 DEF CloseReviewer
<1>25. ASSUME NEW c \in Calls, ReleaseWorkflowLock(c) PROVE Estimate'
  BY <1>25 DEF ReleaseWorkflowLock
<1>26. ASSUME NEW c \in Calls, Cancel(c) PROVE Estimate'
  BY <1>26 DEF Cancel
<1>27. ASSUME NEW s \in Servers, Crash(s) PROVE Estimate'
  BY <1>27 DEF Crash
<1>28. ASSUME NEW t \in Threads, OrphanExits(t) PROVE Estimate'
  BY <1>28 DEF OrphanExits
<1>29. ASSUME OlderBegins PROVE Estimate'
  BY <1>29 DEF OlderBegins
<1>30. ASSUME OlderEnds PROVE Estimate'
  BY <1>30 DEF OlderEnds
<1>31. ASSUME HandEdit PROVE Estimate'
  BY <1>31 DEF HandEdit
<1>32. ASSUME UNCHANGED vars PROVE Estimate'
  BY <1>32 DEF vars
<1>33. QED
  BY <1>1, <1>2, <1>3, <1>4, <1>5, <1>6, <1>7, <1>8, <1>9, <1>10, <1>11, <1>12, <1>13,
     <1>14, <1>15, <1>16, <1>17, <1>18, <1>19, <1>20, <1>21, <1>22, <1>23, <1>24, <1>25,
     <1>26, <1>27, <1>28, <1>29, <1>30, <1>31, <1>32
  DEF Next, CallStep, Environment

-----------------------------------------------------------------------------
(* The store of a server is shared by its calls, its loaded flag with it:  *)
(* only the holder of the state lock loads, and it holds the lock until it *)
(* has saved.                                                              *)
LEMMA StoreLoadedStep == Typed /\ Locks /\ StoreLoaded /\ [Next]_vars => StoreLoaded'
<1> SUFFICES ASSUME Typed, Locks, StoreLoaded, [Next]_vars PROVE StoreLoaded'
  OBVIOUS
<1> USE ServiceAssumption
    DEF Typed, TypeOK, Locks, StoreLoaded, Goto, Return, Forget, locks, callData, env
<1>1. ASSUME NEW c \in Calls, Submit(c) PROVE StoreLoaded'
  BY <1>1 DEF Submit
<1>2. ASSUME NEW c \in Calls, AcquireWorkflowLock(c) PROVE StoreLoaded'
  BY <1>2 DEF AcquireWorkflowLock
<1>3. ASSUME NEW c \in Calls, WorkflowLockRefused(c) PROVE StoreLoaded'
  BY <1>3 DEF WorkflowLockRefused
<1>4. ASSUME NEW c \in Calls, AcquireStateLock(c) PROVE StoreLoaded'
  BY <1>4 DEF AcquireStateLock, StateLockFree, StateLockedSteps
<1>5. ASSUME NEW c \in Calls, StateLockRefused(c) PROVE StoreLoaded'
  BY <1>5 DEF StateLockRefused
<1>6. ASSUME NEW c \in Calls, LoadWorkflow(c) PROVE StoreLoaded'
  BY <1>6 DEF LoadWorkflow, StateLockedSteps
<1>7. ASSUME NEW c \in Calls, ReplayReview(c) PROVE StoreLoaded'
  BY <1>7 DEF ReplayReview
<1>8. ASSUME NEW c \in Calls, ValidateTarget(c) PROVE StoreLoaded'
  BY <1>8 DEF ValidateTarget
<1>9. ASSUME NEW c \in Calls, NewReviewer(c) PROVE StoreLoaded'
  BY <1>9 DEF NewReviewer
<1>10. ASSUME NEW c \in Calls, SetupFails(c) PROVE StoreLoaded'
  BY <1>10 DEF SetupFails
<1>11. ASSUME NEW c \in Calls, ResumeThread(c) PROVE StoreLoaded'
  BY <1>11 DEF ResumeThread
<1>12. ASSUME NEW c \in Calls, StartThread(c) PROVE StoreLoaded'
  BY <1>12 DEF StartThread
<1>13. ASSUME NEW c \in Calls, ReviewFails(c) PROVE StoreLoaded'
  BY <1>13 DEF ReviewFails
<1>14. ASSUME NEW c \in Calls, Review(c) PROVE StoreLoaded'
  BY <1>14 DEF Review
<1>15. ASSUME NEW c \in Calls, SaveCompleted(c) PROVE StoreLoaded'
  BY <1>15 DEF SaveCompleted, StateLockedSteps, Decodes
<1>16. ASSUME NEW c \in Calls, WriteAtomic(c) PROVE StoreLoaded'
  BY <1>16 DEF WriteAtomic
<1>17. ASSUME NEW c \in Calls, WriteFails(c) PROVE StoreLoaded'
  BY <1>17 DEF WriteFails
<1>18. ASSUME NEW c \in Calls, SaveTooLarge(c) PROVE StoreLoaded'
  BY <1>18 DEF SaveTooLarge
<1>19. ASSUME NEW c \in Calls, EvictRecord(c) PROVE StoreLoaded'
  BY <1>19 DEF EvictRecord, Evicting
<1>20. ASSUME NEW c \in Calls, SaveAgain(c) PROVE StoreLoaded'
  BY <1>20 DEF SaveAgain
<1>21. ASSUME NEW c \in Calls, EvictionFails(c) PROVE StoreLoaded'
  BY <1>21 DEF EvictionFails, Evicting
<1>22. ASSUME NEW c \in Calls, SyncDir(c) PROVE StoreLoaded'
  BY <1>22 DEF SyncDir
<1>23. ASSUME NEW c \in Calls, ReleaseStateLock(c) PROVE StoreLoaded'
  BY <1>23 DEF ReleaseStateLock
<1>24. ASSUME NEW c \in Calls, CloseReviewer(c) PROVE StoreLoaded'
  BY <1>24 DEF CloseReviewer
<1>25. ASSUME NEW c \in Calls, ReleaseWorkflowLock(c) PROVE StoreLoaded'
  BY <1>25 DEF ReleaseWorkflowLock
<1>26. ASSUME NEW c \in Calls, Cancel(c) PROVE StoreLoaded'
  BY <1>26 DEF Cancel
<1>27. ASSUME NEW s \in Servers, Crash(s) PROVE StoreLoaded'
  BY <1>27 DEF Crash
<1>28. ASSUME NEW t \in Threads, OrphanExits(t) PROVE StoreLoaded'
  BY <1>28 DEF OrphanExits
<1>29. ASSUME OlderBegins PROVE StoreLoaded'
  BY <1>29 DEF OlderBegins
<1>30. ASSUME OlderEnds PROVE StoreLoaded'
  BY <1>30 DEF OlderEnds
<1>31. ASSUME HandEdit PROVE StoreLoaded'
  BY <1>31 DEF HandEdit
<1>32. ASSUME UNCHANGED vars PROVE StoreLoaded'
  BY <1>32 DEF vars
<1>33. QED
  BY <1>1, <1>2, <1>3, <1>4, <1>5, <1>6, <1>7, <1>8, <1>9, <1>10, <1>11, <1>12, <1>13,
     <1>14, <1>15, <1>16, <1>17, <1>18, <1>19, <1>20, <1>21, <1>22, <1>23, <1>24, <1>25,
     <1>26, <1>27, <1>28, <1>29, <1>30, <1>31, <1>32
  DEF Next, CallStep, Environment

-----------------------------------------------------------------------------
(* What the frame of a call says about the round it makes.                 *)

SaveSteps == {"save", "saving", "writing", "evicting"}

(* The steps with a child whose thread call has succeeded, or at least     *)
(* been made.                                                              *)
WriterSteps == {"turn", "syncDir", "stateUnlock", "close"} \cup SaveSteps

(* Only a crash leaves a child behind.  Nothing is in a frame before the   *)
(* workflow lock is held, and no writer before the thread call; a request  *)
(* that goes to the reviewer is not the one its copy answers; a known      *)
(* workflow keeps its thread; the completed round is that thread's, that   *)
(* request's, and the next one; and a verdict stands from the step that    *)
(* reaches it to the release of the lock.                                  *)
Rounds ==
  /\ orphans # {} => crashes > 0
  /\ \A c \in Calls :
       /\ pc[c] \notin LockedSteps => wf[c] = NoWorkflow /\ done[c] = NoWorkflow
       /\ pc[c] \notin WriterSteps => thread[c] = NoThread
       /\ pc[c] \in CopySteps \ {"target"} => ~ Replays(c)
       /\ pc[c] \in {"turn"} \cup SaveSteps /\ Known(c) => thread[c] = wf[c].thread
       /\ pc[c] \in SaveSteps =>
            /\ done[c].thread = thread[c]
            /\ done[c].hash = req[c].hash
            /\ done[c].round = RoundAfter(wf[c])
            /\ done[c].review \in ReviewSizes
       /\ outcome[c] # "none" <=> pc[c] \in {"stateUnlock", "close", "unlock"}

(* Every step of review() fills the frame as the next one reads it.        *)
LEMMA RoundsStep == Typed /\ Rounds /\ [Next]_vars => Rounds'
<1> SUFFICES ASSUME Typed, Rounds, [Next]_vars PROVE Rounds'
  OBVIOUS
<1> USE ServiceAssumption
    DEF Typed, TypeOK, Frames, Rounds, CopySteps, SaveSteps, WriterSteps, LockedSteps, Replays,
        Known, Goto, Return, Forget, locks, callData, env
<1>1. ASSUME NEW c \in Calls, Submit(c) PROVE Rounds'
  BY <1>1 DEF Submit
<1>2. ASSUME NEW c \in Calls, AcquireWorkflowLock(c) PROVE Rounds'
  BY <1>2 DEF AcquireWorkflowLock
<1>3. ASSUME NEW c \in Calls, WorkflowLockRefused(c) PROVE Rounds'
  BY <1>3 DEF WorkflowLockRefused
<1>4. ASSUME NEW c \in Calls, AcquireStateLock(c) PROVE Rounds'
  BY <1>4 DEF AcquireStateLock
<1>5. ASSUME NEW c \in Calls, StateLockRefused(c) PROVE Rounds'
  <2>1. UNCHANGED <<orphans, crashes, wf, done, thread, req>>
    BY <1>5 DEF StateLockRefused
  <2>2. CASE pc[c] = "load"
    <3>1. /\ pc' = [pc EXCEPT ![c] = "unlock"]
          /\ outcome' = [outcome EXCEPT ![c] = "failed"]
      BY <1>5, <2>2 DEF StateLockRefused
    <3>2. QED
      BY <2>1, <2>2, <3>1
  <2>3. CASE pc[c] = "save"
    <3>1. /\ pc' = [pc EXCEPT ![c] = "close"]
          /\ outcome' = [outcome EXCEPT ![c] = "unsaved"]
      BY <1>5, <2>3 DEF StateLockRefused
    <3>2. QED
      BY <2>1, <2>3, <3>1
  <2>4. QED
    BY <1>5, <2>2, <2>3 DEF StateLockRefused
<1>6. ASSUME NEW c \in Calls, LoadWorkflow(c) PROVE Rounds'
  BY <1>6 DEF LoadWorkflow
<1>7. ASSUME NEW c \in Calls, ReplayReview(c) PROVE Rounds'
  BY <1>7 DEF ReplayReview
<1>8. ASSUME NEW c \in Calls, ValidateTarget(c) PROVE Rounds'
  BY <1>8 DEF ValidateTarget
<1>9. ASSUME NEW c \in Calls, NewReviewer(c) PROVE Rounds'
  BY <1>9 DEF NewReviewer
<1>10. ASSUME NEW c \in Calls, SetupFails(c) PROVE Rounds'
  BY <1>10 DEF SetupFails
<1>11. ASSUME NEW c \in Calls, ResumeThread(c) PROVE Rounds'
  BY <1>11 DEF ResumeThread
<1>12. ASSUME NEW c \in Calls, StartThread(c) PROVE Rounds'
  BY <1>12 DEF StartThread, NeedsThread
<1>13. ASSUME NEW c \in Calls, ReviewFails(c) PROVE Rounds'
  BY <1>13 DEF ReviewFails
<1>14. ASSUME NEW c \in Calls, Review(c) PROVE Rounds'
  <2>1. /\ pc[c] = "turn" /\ pc' = [pc EXCEPT ![c] = "save"]
        /\ UNCHANGED <<req, wf, thread, outcome, orphans, crashes>>
    BY <1>14 DEF Review
  <2>2. PICK n \in ReviewSizes :
          done' = [done EXCEPT ![c] = FinishedRound(wf[c], thread[c], req[c].hash, n)]
    BY <1>14 DEF Review
  <2>3. /\ done'[c].thread = thread[c]
        /\ done'[c].hash = req[c].hash
        /\ done'[c].round = RoundAfter(wf[c])
        /\ done'[c].review \in ReviewSizes
    BY <2>2 DEF FinishedRound
  <2>4. \A d \in Calls \ {c} : done'[d] = done[d]
    BY <2>2
  <2>5. QED
    BY <2>1, <2>3, <2>4
<1>15. ASSUME NEW c \in Calls, SaveCompleted(c) PROVE Rounds'
  <2>1. /\ pc[c] = "saving"
        /\ UNCHANGED <<req, wf, thread, done, orphans, crashes>>
    BY <1>15 DEF SaveCompleted
  <2>2. \/ pc' = [pc EXCEPT ![c] = "writing"] /\ UNCHANGED outcome
        \/ /\ pc' = [pc EXCEPT ![c] = "stateUnlock"]
           /\ outcome' = [outcome EXCEPT ![c] = "unsaved"]
    BY <1>15 DEF SaveCompleted
  <2>3. QED
    BY <2>1, <2>2
<1>16. ASSUME NEW c \in Calls, WriteAtomic(c) PROVE Rounds'
  BY <1>16 DEF WriteAtomic
<1>17. ASSUME NEW c \in Calls, WriteFails(c) PROVE Rounds'
  BY <1>17 DEF WriteFails
<1>18. ASSUME NEW c \in Calls, SaveTooLarge(c) PROVE Rounds'
  BY <1>18 DEF SaveTooLarge
<1>19. ASSUME NEW c \in Calls, EvictRecord(c) PROVE Rounds'
  BY <1>19 DEF EvictRecord, Evicting
<1>20. ASSUME NEW c \in Calls, SaveAgain(c) PROVE Rounds'
  BY <1>20 DEF SaveAgain
<1>21. ASSUME NEW c \in Calls, EvictionFails(c) PROVE Rounds'
  BY <1>21 DEF EvictionFails, Evicting
<1>22. ASSUME NEW c \in Calls, SyncDir(c) PROVE Rounds'
  BY <1>22 DEF SyncDir
<1>23. ASSUME NEW c \in Calls, ReleaseStateLock(c) PROVE Rounds'
  BY <1>23 DEF ReleaseStateLock
<1>24. ASSUME NEW c \in Calls, CloseReviewer(c) PROVE Rounds'
  BY <1>24 DEF CloseReviewer, ChildExits
<1>25. ASSUME NEW c \in Calls, ReleaseWorkflowLock(c) PROVE Rounds'
  BY <1>25 DEF ReleaseWorkflowLock
<1>26. ASSUME NEW c \in Calls, Cancel(c) PROVE Rounds'
  BY <1>26 DEF Cancel
<1>27. ASSUME NEW s \in Servers, Crash(s) PROVE Rounds'
  BY <1>27 DEF Crash
<1>28. ASSUME NEW t \in Threads, OrphanExits(t) PROVE Rounds'
  BY <1>28 DEF OrphanExits
<1>29. ASSUME OlderBegins PROVE Rounds'
  BY <1>29 DEF OlderBegins
<1>30. ASSUME OlderEnds PROVE Rounds'
  BY <1>30 DEF OlderEnds
<1>31. ASSUME HandEdit PROVE Rounds'
  BY <1>31 DEF HandEdit
<1>32. ASSUME UNCHANGED vars PROVE Rounds'
  BY <1>32 DEF vars
<1>33. QED
  BY <1>1, <1>2, <1>3, <1>4, <1>5, <1>6, <1>7, <1>8, <1>9, <1>10, <1>11, <1>12, <1>13,
     <1>14, <1>15, <1>16, <1>17, <1>18, <1>19, <1>20, <1>21, <1>22, <1>23, <1>24, <1>25,
     <1>26, <1>27, <1>28, <1>29, <1>30, <1>31, <1>32
  DEF Next, CallStep, Environment

-----------------------------------------------------------------------------
(* The thread of a workflow is no other workflow's.                        *)

InFrame(c, t) ==
  \/ wf[c] # NoWorkflow /\ wf[c].thread = t
  \/ thread[c] = t
  \/ done[c] # NoWorkflow /\ done[c].thread = t

(* Who knows the thread: the file, a State decoded from it, or a call that *)
(* holds the workflow lock.                                                *)
Owns(w, t) ==
  \/ file[w] # NoWorkflow /\ file[w].thread = t
  \/ \E a \in Writers : st[a] # NoState /\ st[a][w] # NoWorkflow /\ st[a][w].thread = t
  \/ \E c \in Calls : pc[c] \in LockedSteps /\ req[c].workflow = w /\ InFrame(c, t)

Apart == \A v, w \in Workflows, t \in Threads : Owns(v, t) /\ Owns(w, t) => v = w

(* A thread that a workflow owns is in use, so none is started with it.    *)
LEMMA OwnedIsUsed ==
  ASSUME Typed, NEW w \in Workflows, NEW t \in Threads, Owns(w, t)
  PROVE  t \in UsedThreads
<1> DEFINE InFile == {file[v] : v \in Workflows}
           Copied == {wf[c] : c \in Calls}
           Completed == {done[c] : c \in Calls}
           Decoded == UNION {{st[a][v] : v \in Workflows} :
                               a \in {b \in Writers : st[b] # NoState}}
<1>1. Records = (InFile \cup Copied \cup Completed \cup Decoded) \ {NoWorkflow}
  BY DEF Records
<1>2. /\ \A v \in Workflows : file[v] \in InFile
      /\ \A c \in Calls : wf[c] \in Copied /\ done[c] \in Completed
  OBVIOUS
<1>3. ASSUME NEW a \in Writers, st[a] # NoState, NEW v \in Workflows
      PROVE  st[a][v] \in Decoded
  <2>1. a \in {b \in Writers : st[b] # NoState}
    BY <1>3
  <2>2. st[a][v] \in {st[a][x] : x \in Workflows}
    OBVIOUS
  <2>3. QED BY <2>1, <2>2, Zenon
<1> HIDE DEF InFile, Copied, Completed, Decoded
<1>4. \A r \in InFile \cup Copied \cup Completed \cup Decoded : r # NoWorkflow => r \in Records
  BY ONLY <1>1
<1>5. \A r \in Records : r.thread \in UsedThreads
  BY Zenon DEF UsedThreads
<1>6. \A c \in Calls : thread[c] \in UsedThreads
  BY Zenon DEF UsedThreads
<1>7. QED
  BY <1>2, <1>3, <1>4, <1>5, <1>6 DEF Owns, InFrame

(* Steps that bring no new thread keep the threads apart.                  *)
LEMMA ApartKept ==
  ASSUME Apart, \A w \in Workflows, t \in Threads : Owns(w, t)' => Owns(w, t)
  PROVE  Apart'
BY DEF Apart

(* So does a step that brings one workflow a thread not in use.            *)
LEMMA ApartWithNew ==
  ASSUME Typed, Apart, NEW v \in Workflows, NEW u \in Threads \ UsedThreads,
         \A w \in Workflows, t \in Threads : Owns(w, t)' => Owns(w, t) \/ (w = v /\ t = u)
  PROVE  Apart'
<1>1. \A w \in Workflows : ~ Owns(w, u)
  BY OwnedIsUsed
<1>2. QED
  BY <1>1 DEF Apart

(* A thread passes from the file to the copy, to the writer, to the        *)
(* completed round and back to the file, within one workflow.              *)
LEMMA ApartStep == Typed /\ Rounds /\ Apart /\ [Next]_vars => Apart'
<1> SUFFICES ASSUME Typed, Rounds, Apart, [Next]_vars PROVE Apart'
  OBVIOUS
<1> DEFINE NoneGained == \A w \in Workflows, t \in Threads : Owns(w, t)' => Owns(w, t)
<1> DEFINE OneGains(v, u) ==
             \A w \in Workflows, t \in Threads : Owns(w, t)' => Owns(w, t) \/ (w = v /\ t = u)
<1>kept. NoneGained => Apart'
  BY ApartKept
<1>new. ASSUME NEW v \in Workflows, NEW u \in Threads \ UsedThreads, OneGains(v, u)
      PROVE  Apart'
  BY <1>new, ApartWithNew
<1> USE ServiceAssumption
    DEF Typed, TypeOK, Frames, Writers, Owns, InFrame, LockedSteps, Goto, Return, Forget,
        locks, callData, env
<1>1. ASSUME NEW c \in Calls, Submit(c) PROVE Apart'
  <2>1. NoneGained
    BY <1>1 DEF Submit
  <2>2. QED BY <1>kept, <2>1
<1>2. ASSUME NEW c \in Calls, AcquireWorkflowLock(c) PROVE Apart'
  <2>1. NoneGained
    BY <1>2 DEF AcquireWorkflowLock, Rounds, WriterSteps, SaveSteps
  <2>2. QED BY <1>kept, <2>1
<1>3. ASSUME NEW c \in Calls, WorkflowLockRefused(c) PROVE Apart'
  <2>1. NoneGained
    BY <1>3 DEF WorkflowLockRefused
  <2>2. QED BY <1>kept, <2>1
<1>4. ASSUME NEW c \in Calls, AcquireStateLock(c) PROVE Apart'
  <2>1. NoneGained
    BY <1>4 DEF AcquireStateLock
  <2>2. QED BY <1>kept, <2>1
<1>5. ASSUME NEW c \in Calls, StateLockRefused(c) PROVE Apart'
  <2>1. NoneGained
    BY <1>5 DEF StateLockRefused
  <2>2. QED BY <1>kept, <2>1
<1>6. ASSUME NEW c \in Calls, LoadWorkflow(c) PROVE Apart'
  <2>1. /\ pc[c] = "loading" /\ pc'[c] \in LockedSteps /\ req[c].workflow \in Workflows
        /\ \A d \in Calls \ {c} : pc'[d] = pc[d] /\ wf'[d] = wf[d]
        /\ wf'[c] = wf[c] \/ wf'[c] = file[req[c].workflow]
        /\ UNCHANGED <<file, req, thread, done, st>>
    BY <1>6 DEF LoadWorkflow, Request
  <2>2. NoneGained
    BY <2>1
  <2>3. QED BY <1>kept, <2>2
<1>7. ASSUME NEW c \in Calls, ReplayReview(c) PROVE Apart'
  <2>1. NoneGained
    BY <1>7 DEF ReplayReview
  <2>2. QED BY <1>kept, <2>1
<1>8. ASSUME NEW c \in Calls, ValidateTarget(c) PROVE Apart'
  <2>1. NoneGained
    BY <1>8 DEF ValidateTarget
  <2>2. QED BY <1>kept, <2>1
<1>9. ASSUME NEW c \in Calls, NewReviewer(c) PROVE Apart'
  <2>1. NoneGained
    BY <1>9 DEF NewReviewer
  <2>2. QED BY <1>kept, <2>1
<1>10. ASSUME NEW c \in Calls, SetupFails(c) PROVE Apart'
  <2>1. NoneGained
    BY <1>10 DEF SetupFails
  <2>2. QED BY <1>kept, <2>1
<1>11. ASSUME NEW c \in Calls, ResumeThread(c) PROVE Apart'
  <2>1. NoneGained
    BY <1>11 DEF ResumeThread, Known
  <2>2. QED BY <1>kept, <2>1
<1>12. ASSUME NEW c \in Calls, StartThread(c) PROVE Apart'
  <2>1. PICK u \in Threads \ UsedThreads : thread' = [thread EXCEPT ![c] = u]
    BY <1>12 DEF StartThread
  <2>2. /\ pc[c] = "thread" /\ pc' = [pc EXCEPT ![c] = "turn"] /\ req[c].workflow \in Workflows
        /\ UNCHANGED <<file, req, wf, done, st>>
    BY <1>12 DEF StartThread, Request
  <2>3. PICK v \in Workflows : v = req[c].workflow
    BY <2>2
  <2>4. OneGains(v, u)
    BY <2>1, <2>2, <2>3
  <2> HIDE DEF OneGains
  <2>5. QED
    BY ONLY <1>new, <2>4
<1>13. ASSUME NEW c \in Calls, ReviewFails(c) PROVE Apart'
  <2>1. NoneGained
    BY <1>13 DEF ReviewFails
  <2>2. QED BY <1>kept, <2>1
<1>14. ASSUME NEW c \in Calls, Review(c) PROVE Apart'
  <2>1. /\ pc[c] = "turn" /\ pc' = [pc EXCEPT ![c] = "save"]
        /\ UNCHANGED <<file, req, wf, thread, st>>
    BY <1>14 DEF Review
  <2>2. done' = [done EXCEPT ![c] = done'[c]] /\ done'[c].thread = thread[c]
    <3>1. PICK n \in ReviewSizes :
            done' = [done EXCEPT ![c] = FinishedRound(wf[c], thread[c], req[c].hash, n)]
      BY <1>14 DEF Review
    <3>2. QED BY <3>1 DEF FinishedRound
  <2>3. NoneGained
    BY <2>1, <2>2
  <2>4. QED BY <1>kept, <2>3
<1>15. ASSUME NEW c \in Calls, SaveCompleted(c) PROVE Apart'
  <2> DEFINE w == req[c].workflow
             new == Superseding(wf[c], file[w], done[c])
  <2>1. /\ pc[c] = "saving" /\ pc'[c] \in {"writing", "stateUnlock"}
        /\ \A d \in Calls \ {c} : pc'[d] = pc[d]
        /\ w \in Workflows /\ done[c] \in Workflow
        /\ UNCHANGED <<file, req, wf, thread, done>>
    BY <1>15 DEF SaveCompleted, Request
  <2>2. CASE Decodes /\ Unchanged(c, file[w])
    <3>1. SameRound(new, done[c])
      BY <2>1, <2>2, SupersedingSameRound DEF Unchanged, Known
    <3>2. st' = [st EXCEPT ![c] = [file EXCEPT ![w] = new]]
      BY <1>15, <2>2 DEF SaveCompleted
    <3> HIDE DEF new
    <3>3. done[c] # NoWorkflow /\ new.thread = done[c].thread
      BY <2>1, <3>1, NoWorkflowAssumption DEF SameRound, SameReplayFields
    <3>4. /\ st'[c][w] = new /\ \A v \in Workflows \ {w} : st'[c][v] = file[v]
          /\ \A a \in Writers \ {c} : st'[a] = st[a]
      BY <2>1, <3>2
    <3> HIDE DEF w
    <3>5. NoneGained
      BY <2>1, <3>3, <3>4 DEF w
    <3>6. QED BY <1>kept, <3>5
  <2>3. CASE ~ (Decodes /\ Unchanged(c, file[w]))
    <3>1. UNCHANGED st
      BY <1>15, <2>3 DEF SaveCompleted
    <3>2. NoneGained
      BY <2>1, <3>1
    <3>3. QED BY <1>kept, <3>2
  <2>4. QED BY <2>2, <2>3
<1>16. ASSUME NEW c \in Calls, WriteAtomic(c) PROVE Apart'
  <2>1. /\ pc[c] = "writing" /\ pc' = [pc EXCEPT ![c] = "syncDir"]
        /\ file' = st[c] /\ UNCHANGED <<req, wf, thread, done, st>>
    BY <1>16 DEF WriteAtomic
  <2>2. st[c] # NoState
    BY <2>1, NoStateAssumption DEF States
  <2>3. NoneGained
    BY <2>1, <2>2
  <2>4. QED BY <1>kept, <2>3
<1>17. ASSUME NEW c \in Calls, WriteFails(c) PROVE Apart'
  <2>1. NoneGained
    BY <1>17 DEF WriteFails
  <2>2. QED BY <1>kept, <2>1
<1>18. ASSUME NEW c \in Calls, SaveTooLarge(c) PROVE Apart'
  <2>1. NoneGained
    BY <1>18 DEF SaveTooLarge
  <2>2. QED BY <1>kept, <2>1
<1>19. ASSUME NEW c \in Calls, EvictRecord(c) PROVE Apart'
  <2>1. pc[c] = "evicting" /\ UNCHANGED <<file, pc, req, wf, thread, done>>
    BY <1>19 DEF EvictRecord, Evicting
  <2>2. PICK w \in Largest(st[c]) : st' = [st EXCEPT ![c][w].history = Tail(@)]
    BY <1>19 DEF EvictRecord
  <2>3. w \in Workflows /\ st[c] \in States /\ st[c][w] \in Workflow /\ st[c][w] # NoWorkflow
    <3>1. st[c] \in States
      BY <2>1
    <3>2. QED BY <3>1 DEF Largest, Candidates, Present, States
  <2>4. st[c] # NoState
    BY <2>3, NoStateAssumption DEF States
  <2> DEFINE x == [st[c][w] EXCEPT !.history = Tail(@)]
  <2>5. x.thread = st[c][w].thread
    BY <2>3 DEF Workflow
  <2>6. st' = [st EXCEPT ![c] = [st[c] EXCEPT ![w] = x]]
    BY <2>2
  <2> HIDE DEF x
  <2>7. /\ st'[c][w] = x /\ \A v \in Workflows \ {w} : st'[c][v] = st[c][v]
        /\ \A a \in Writers \ {c} : st'[a] = st[a]
    BY <2>3, <2>6 DEF States
  <2>8. ASSUME NEW a \in Writers, NEW v \in Workflows, st'[a] # NoState, st'[a][v] # NoWorkflow
        PROVE  st[a] # NoState /\ st[a][v] # NoWorkflow /\ st'[a][v].thread = st[a][v].thread
    <3>1. CASE a # c
      BY <2>7, <2>8, <3>1
    <3>2. CASE a = c /\ v = w
      BY <2>3, <2>4, <2>5, <2>7, <3>2
    <3>3. CASE a = c /\ v # w
      BY <2>4, <2>7, <2>8, <3>3
    <3>4. QED BY <3>1, <3>2, <3>3
  <2> HIDE DEF Typed, TypeOK, Frames
  <2>9. NoneGained
    BY <2>1, <2>8
  <2>10. QED BY <1>kept, <2>9
<1>20. ASSUME NEW c \in Calls, SaveAgain(c) PROVE Apart'
  <2>1. NoneGained
    BY <1>20 DEF SaveAgain
  <2>2. QED BY <1>kept, <2>1
<1>21. ASSUME NEW c \in Calls, EvictionFails(c) PROVE Apart'
  <2>1. NoneGained
    BY <1>21 DEF EvictionFails, Evicting
  <2>2. QED BY <1>kept, <2>1
<1>22. ASSUME NEW c \in Calls, SyncDir(c) PROVE Apart'
  <2>1. NoneGained
    BY <1>22 DEF SyncDir
  <2>2. QED BY <1>kept, <2>1
<1>23. ASSUME NEW c \in Calls, ReleaseStateLock(c) PROVE Apart'
  <2>1. NoneGained
    BY <1>23 DEF ReleaseStateLock
  <2>2. QED BY <1>kept, <2>1
<1>24. ASSUME NEW c \in Calls, CloseReviewer(c) PROVE Apart'
  <2>1. NoneGained
    BY <1>24 DEF CloseReviewer, ChildExits
  <2>2. QED BY <1>kept, <2>1
<1>25. ASSUME NEW c \in Calls, ReleaseWorkflowLock(c) PROVE Apart'
  <2>1. NoneGained
    BY <1>25 DEF ReleaseWorkflowLock
  <2>2. QED BY <1>kept, <2>1
<1>26. ASSUME NEW c \in Calls, Cancel(c) PROVE Apart'
  <2>1. NoneGained
    BY <1>26 DEF Cancel
  <2>2. QED BY <1>kept, <2>1
<1>27. ASSUME NEW s \in Servers, Crash(s) PROVE Apart'
  <2>1. NoneGained
    <3>1. file' = file /\ \A a \in Writers : st'[a] \in {NoState, st[a]}
      BY <1>27 DEF Crash
    <3>2. \A c \in Calls : \/ pc'[c] = "idle"
                           \/ /\ pc'[c] = pc[c] /\ req'[c] = req[c] /\ wf'[c] = wf[c]
                              /\ done'[c] = done[c] /\ thread'[c] = thread[c]
      BY <1>27 DEF Crash
    <3>3. QED
      BY ONLY <3>1, <3>2 DEF Owns, InFrame, LockedSteps, Writers
  <2>2. QED BY <1>kept, <2>1
<1>28. ASSUME NEW t \in Threads, OrphanExits(t) PROVE Apart'
  <2>1. NoneGained
    BY <1>28 DEF OrphanExits
  <2>2. QED BY <1>kept, <2>1
<1>29. ASSUME OlderBegins PROVE Apart'
  <2>1. NoneGained
    BY <1>29 DEF OlderBegins
  <2>2. QED BY <1>kept, <2>1
<1>30. ASSUME OlderEnds PROVE Apart'
  <2>1. UNCHANGED <<pc, req, wf, thread, done>> /\ st' = [st EXCEPT ![Older] = NoState]
    BY <1>30 DEF OlderEnds
  <2>2. CASE UNCHANGED file
    <3>1. NoneGained
      BY <2>1, <2>2
    <3>2. QED BY <1>kept, <3>1
  <2>3. CASE ~ UNCHANGED file
    <3>1. PICK v \in Workflows, u \in Threads, q \in Requests, n \in ReviewSizes :
            /\ OlderMayReview(v, u)
            /\ file' = [st[Older] EXCEPT ![v] = Superseding(@, @, FinishedRound(@, u, q, n))]
      BY <1>30, <2>3 DEF OlderEnds
    <3>2. st[Older] # NoState /\ st[Older] \in States
      BY <1>30, <2>3 DEF OlderEnds, States
    <3> DEFINE before == st[Older][v]
               new == Superseding(before, before, FinishedRound(before, u, q, n))
    <3>3. before \in Workflow \cup {NoWorkflow}
      BY <3>2 DEF States
    <3> HIDE DEF before
    <3>4. new.thread = u
      <4>1. FinishedRound(before, u, q, n) \in Workflow
        BY <3>3, FinishedRoundType
      <4>2. SameRound(new, FinishedRound(before, u, q, n))
        BY ONLY <3>3, <4>1, SupersedingSameRound
      <4>3. FinishedRound(before, u, q, n).thread = u
        BY DEF FinishedRound
      <4>4. FinishedRound(before, u, q, n) # NoWorkflow
        BY <4>1, NoWorkflowAssumption
      <4> HIDE DEF new
      <4>5. QED BY <4>2, <4>3, <4>4 DEF SameRound, SameReplayFields
    <3> HIDE DEF new
    <3>5. file' = [st[Older] EXCEPT ![v] = new]
      BY <3>1 DEF new, before
    <3>6. \A w \in Workflows \ {v} : file'[w] = st[Older][w]
      BY <3>2, <3>5 DEF States
    <3>7. file'[v] = new
      BY <3>2, <3>5 DEF States
    <3>8. OneGains(v, u)
      BY <2>1, <3>2, <3>4, <3>6, <3>7
    <3>9. CASE before = NoWorkflow
      <4>1. u \in Threads \ UsedThreads
        BY <3>1, <3>9 DEF OlderMayReview, before
      <4> HIDE DEF OneGains
      <4>2. QED BY ONLY <1>new, <3>1, <3>8, <4>1
    <3>10. CASE before # NoWorkflow
      <4>1. Owns(v, u)
        BY <3>1, <3>2, <3>10 DEF OlderMayReview, before
      <4>2. NoneGained
        BY SMTT(20), <3>8, <4>1
      <4>3. QED BY <1>kept, <4>2
    <3>11. QED BY <3>9, <3>10
  <2>4. QED BY <2>2, <2>3
<1>31. ASSUME HandEdit PROVE Apart'
  <2>1. NoneGained
    BY <1>31 DEF HandEdit, Present
  <2>2. QED BY <1>kept, <2>1
<1>32. ASSUME UNCHANGED vars PROVE Apart'
  <2>1. NoneGained
    BY <1>32 DEF vars
  <2>2. QED BY <1>kept, <2>1
<1>33. QED
  BY <1>1, <1>2, <1>3, <1>4, <1>5, <1>6, <1>7, <1>8, <1>9, <1>10, <1>11, <1>12, <1>13,
     <1>14, <1>15, <1>16, <1>17, <1>18, <1>19, <1>20, <1>21, <1>22, <1>23, <1>24, <1>25,
     <1>26, <1>27, <1>28, <1>29, <1>30, <1>31, <1>32
  DEF Next, CallStep, Environment

(* A workflow's thread is written by the holder of its lock, or by a child *)
(* that a crash left behind.                                               *)
LEMMA WritersApart ==
  ASSUME Typed, Locks, Rounds, Apart
  PROVE  WriterHandedOver
<1> SUFFICES ASSUME NEW c \in Calls, pc[c] = "thread", Known(c)
             PROVE  \/ WriterFree(wf[c].thread)
                    \/ /\ crashes > 0 /\ wf[c].thread \in orphans
                       /\ \A d \in Calls : thread[d] # wf[c].thread
  BY DEF WriterHandedOver
<1> USE DEF Typed, TypeOK, Frames
<1> DEFINE t == wf[c].thread
<1>1. t \in Threads /\ t # NoThread
  BY ServiceAssumption DEF Known, Workflow
<1>2. ASSUME NEW d \in Calls, thread[d] = t
      PROVE  FALSE
  <2>1. pc[d] \in WriterSteps
    BY <1>1, <1>2 DEF Rounds
  <2>2. d # c /\ pc[d] \in LockedSteps /\ pc[c] \in LockedSteps
    BY <2>1 DEF WriterSteps, SaveSteps, LockedSteps
  <2>3. /\ wlock[req[d].workflow] = d /\ wlock[req[c].workflow] = c
        /\ req[d].workflow \in Workflows /\ req[c].workflow \in Workflows
    BY <2>2 DEF Locks, LockedSteps, Request
  <2>4. Owns(req[d].workflow, t) /\ Owns(req[c].workflow, t)
    BY <1>2, <2>2 DEF Owns, InFrame, Known
  <2>5. QED
    BY <1>1, <2>2, <2>3, <2>4 DEF Apart
<1>3. t \in orphans => crashes > 0
  BY DEF Rounds
<1>4. QED
  BY <1>2, <1>3 DEF WriterFree

-----------------------------------------------------------------------------
(* The inductive invariant, and what follows from it.                      *)

IInv ==
  /\ Typed /\ Locks /\ Saves /\ Copies /\ Rounds /\ Apart
  /\ Validity /\ Estimate /\ StoreLoaded

(* The inductive invariant holds at first.                                 *)
LEMMA IInvInit == Init => IInv
<1> SUFFICES ASSUME Init PROVE IInv
  OBVIOUS
<1>1. Typed
  BY TypedInit
<1>2. Locks
  BY DEF Init, Locks, LockedSteps, StateLockedSteps
<1>3. Saves
  BY ServiceAssumption DEF Init, Saves
<1>4. Copies
  BY ServiceAssumption DEF Init, Copies, CopySteps
<1>5. Validity
  BY DEF Init, Validity, Valid, Writers
<1>6. Estimate
  BY DEF Init, Estimate
<1>7. StoreLoaded
  BY DEF Init, StoreLoaded
<1>8. Rounds
  BY DEF Init, Rounds, SaveSteps, WriterSteps, CopySteps, LockedSteps
<1>9. Apart
  BY DEF Init, Apart, Owns, LockedSteps
<1>10. QED
  BY <1>1, <1>2, <1>3, <1>4, <1>5, <1>6, <1>7, <1>8, <1>9 DEF IInv

(* Each part is preserved, given the parts before it.                      *)
LEMMA IInvStep == IInv /\ [Next]_vars => IInv'
BY TypedStep, LocksStep, SavesStep, CopiesStep, RoundsStep, ApartStep, ValidityStep,
   EstimateStep, StoreLoadedStep
DEF IInv

(* The inductive invariant, for every number of calls, servers, workflows  *)
(* and for every bound of the ledger.                                      *)
THEOREM IInvHolds == Spec => []IInv
BY IInvInit, IInvStep, PTL DEF Spec

(* The record a call copied under the state lock is still current when the *)
(* call has run its whole review without that lock: no other call changes  *)
(* it (review.go, loadWorkflow and saveCompleted).                         *)
THEOREM CopyStaysCurrent == Spec => []CopyCurrent
<1>1. IInv => CopyCurrent
  BY DEF IInv, Copies, CopyCurrent, CopySteps
<1>2. QED
  BY IInvHolds, <1>1, PTL

(* A new review is answered only for a round that the file holds, and that *)
(* stays there as long as the call holds its workflow lock.                *)
THEOREM AnswersAreRecorded == Spec => []AnswerRecorded
<1>1. IInv => AnswerRecorded
  BY DEF IInv, Copies, AnswerRecorded
<1>2. QED
  BY IInvHolds, <1>1, PTL

(* No review ever writes a record that loading refuses to continue from,   *)
(* for want of a text or for a ledger that has a gap or exceeds a bound.   *)
THEOREM SavedRecordsStayValid == Spec => []SavedRecordsValid
<1>1. IInv => SavedRecordsValid
  BY DEF IInv, Validity, SavedRecordsValid
<1>2. QED
  BY IInvHolds, <1>1, PTL

(* Save never runs on a store that another call of the server has set back *)
(* to not loaded (state.go, Store.Load and Store.Save).                    *)
THEOREM StoreStaysLoaded == Spec => []StoreLoaded
<1>1. IInv => StoreLoaded
  BY DEF IInv
<1>2. QED
  BY IInvHolds, <1>1, PTL

(* A round never finds its thread's writer with the child of a running     *)
(* call: Close waits for the child's exit before the workflow lock is      *)
(* released, and no thread belongs to two workflows (review.go, the        *)
(* deferred calls).  A child that holds it was left behind by a server     *)
(* that crashed.                                                           *)
THEOREM WriterIsHandedOver == Spec => []WriterHandedOver
<1>1. IInv => WriterHandedOver
  BY WritersApart DEF IInv
<1>2. QED
  BY IInvHolds, <1>1, PTL

-----------------------------------------------------------------------------
(* What a step may do to the file.                                         *)

(* Only the rename in Store.Save replaces the file; an older Counterpoint  *)
(* and the human are the others who write to it.                           *)
LEMMA FileWriters ==
  ASSUME [Next]_vars, <<file, readable>>' # <<file, readable>>
  PROVE  (\E c \in Calls : WriteAtomic(c)) \/ OlderEnds \/ HandEdit
<1> USE DEF locks, callData, env
<1>1. ASSUME NEW c \in Calls, Submit(c) \/ AcquireWorkflowLock(c) \/ WorkflowLockRefused(c)
               \/ AcquireStateLock(c) \/ StateLockRefused(c) \/ LoadWorkflow(c)
      PROVE  UNCHANGED <<file, readable>>
  BY <1>1, Zenon DEF Submit, AcquireWorkflowLock, WorkflowLockRefused, AcquireStateLock,
                     StateLockRefused, LoadWorkflow
<1>2. ASSUME NEW c \in Calls, ReplayReview(c) \/ ValidateTarget(c) \/ NewReviewer(c)
               \/ SetupFails(c) \/ ResumeThread(c) \/ StartThread(c) \/ ReviewFails(c) \/ Review(c)
      PROVE  UNCHANGED <<file, readable>>
  BY <1>2, Zenon DEF ReplayReview, ValidateTarget, NewReviewer, SetupFails, ResumeThread,
                     StartThread, ReviewFails, Review
<1>3. ASSUME NEW c \in Calls, SaveCompleted(c) \/ WriteFails(c) \/ SyncDir(c) \/ SaveTooLarge(c)
               \/ EvictRecord(c) \/ SaveAgain(c) \/ EvictionFails(c)
      PROVE  UNCHANGED <<file, readable>>
  BY <1>3, Zenon DEF SaveCompleted, WriteFails, SyncDir, SaveTooLarge, EvictRecord, SaveAgain,
                     EvictionFails
<1>4. ASSUME NEW c \in Calls, ReleaseStateLock(c) \/ CloseReviewer(c) \/ ReleaseWorkflowLock(c)
      PROVE  UNCHANGED <<file, readable>>
  BY <1>4, Zenon DEF ReleaseStateLock, CloseReviewer, ReleaseWorkflowLock
<1>5. ASSUME NEW c \in Calls, Cancel(c) PROVE UNCHANGED <<file, readable>>
  BY <1>5, Zenon DEF Cancel
<1>6. ASSUME NEW s \in Servers, Crash(s) PROVE UNCHANGED <<file, readable>>
  BY <1>6, Zenon DEF Crash
<1>7. ASSUME NEW t \in Threads, OrphanExits(t) PROVE UNCHANGED <<file, readable>>
  BY <1>7, Zenon DEF OrphanExits
<1>8. CASE OlderBegins
  BY <1>8, Zenon DEF OlderBegins
<1>9. CASE UNCHANGED vars
  BY <1>9 DEF vars
<1>10. QED
  BY <1>1, <1>2, <1>3, <1>4, <1>5, <1>6, <1>7, <1>8, <1>9, Zenon
  DEF Next, CallStep, Environment

(* A review replaces one record, its own, by the next round, and of the    *)
(* others it drops at most the oldest part of the ledger; what a writer    *)
(* that took no workflow lock wrote before the Load is kept, and what an   *)
(* editor removed after it is all that a rename brings back (review.go,    *)
(* saveCompleted and saveEvictingHistory).                                 *)
THEOREM OnlySupersededOrTrimmed == Spec => RecordsOnlySuperseded
<1> DEFINE Allowed ==
      \A w \in Workflows :
        \/ file'[w] = file[w]
        \/ slock = Older \/ edits' # edits
        \/ \E c \in Calls : SupersededBy(c, w)
        \/ file[w] = NoWorkflow /\ overtaken /\ \E c \in Calls : Renames(c)
        \/ file[w] # NoWorkflow /\ file'[w] # NoWorkflow /\ DropsOldest(file[w], file'[w])
<1>1. IInv /\ [Next]_vars => Allowed
  <2> SUFFICES ASSUME IInv, [Next]_vars PROVE Allowed
    OBVIOUS
  <2>1. CASE file' = file
    BY <2>1
  <2>2. ASSUME NEW c \in Calls, WriteAtomic(c) PROVE Allowed
    <3>1. /\ pc[c] = "writing" /\ pc' = [pc EXCEPT ![c] = "syncDir"] /\ file' = st[c]
      BY <2>2 DEF WriteAtomic, Goto
    <3>2. Renames(c)
      BY <3>1 DEF Renames, IInv, Typed, TypeOK
    <3> DEFINE own == req[c].workflow
    <3>3. /\ SameRound(file[own], wf[c]) \/ Removed(own)
          /\ SameRound(st[c][own], done[c])
          /\ \A w \in Workflows \ {own} : Trimmed(file[w], st[c][w]) \/ Removed(w)
      BY <3>1 DEF IInv, Saves
    <3>4. done[c] \in Workflow
      BY <3>1 DEF IInv, Typed, Frames
    <3>5. SameRound(file[own], wf[c]) => SupersededBy(c, own)
      BY <3>1, <3>2, <3>3, <3>4, NoWorkflowAssumption DEF SameRound, SupersededBy
    <3> HIDE DEF own
    <3>6. ASSUME NEW w \in Workflows \ {own}, Trimmed(file[w], st[c][w])
          PROVE  \/ file'[w] = file[w]
                 \/ /\ file[w] # NoWorkflow /\ file'[w] # NoWorkflow
                    /\ DropsOldest(file[w], file'[w])
      BY <3>1, <3>6 DEF Trimmed
    <3>7. QED
      BY <3>2, <3>3, <3>5, <3>6 DEF Removed
  <2>3. ASSUME OlderEnds PROVE Allowed
    BY <2>3 DEF OlderEnds
  <2>4. ASSUME HandEdit PROVE Allowed
    <3>1. edits' = edits + 1 /\ edits \in Nat
      BY <2>4 DEF HandEdit, IInv, Typed, TypeOK
    <3>2. QED BY <3>1
  <2>5. QED
    BY <2>1, <2>2, <2>3, <2>4, FileWriters
<1>2. QED
  BY IInvHolds, <1>1, PTL DEF Spec, RecordsOnlySuperseded

(* A ledger never gets back a record that another review evicted: what is  *)
(* in the new ledger was in the file's, or is the superseded round         *)
(* (review.go, saveCompleted: the fresh record's history).                 *)
THEOREM NothingResurrected == Spec => EvictedStaysEvicted
<1> DEFINE NoneBack ==
      \A w \in Workflows :
        file[w] # NoWorkflow /\ file'[w] # NoWorkflow =>
          \A i \in DOMAIN file'[w].history :
            \/ file'[w].history[i].round = file[w].round
            \/ \E j \in DOMAIN file[w].history : file[w].history[j] = file'[w].history[i]
<1>1. IInv /\ [Next]_vars => NoneBack
  <2> SUFFICES ASSUME IInv, [Next]_vars, NEW w \in Workflows PROVE Kept(file[w], file'[w])
    BY DEF Kept
  <2>1. file[w] \in Workflow \cup {NoWorkflow}
    BY DEF IInv, Typed, TypeOK
  <2>2. CASE file'[w] = file[w]
    BY <2>1, <2>2, NothingTrimmed
  <2>3. ASSUME NEW c \in Calls, WriteAtomic(c) PROVE Kept(file[w], file'[w])
    BY <2>3 DEF WriteAtomic, IInv, Saves
  <2>4. file[w] = NoWorkflow \/ file'[w] = NoWorkflow => Kept(file[w], file'[w])
    BY DEF Kept
  <2>5. ASSUME OlderEnds, file'[w] # file[w], file[w] # NoWorkflow PROVE Kept(file[w], file'[w])
    <3>1. PICK v \in Workflows, t \in Threads, q \in Requests, n \in ReviewSizes :
            file' = [st[Older] EXCEPT ![v] = Superseding(@, @, FinishedRound(@, t, q, n))]
      BY <2>5 DEF OlderEnds
    <3>2. st[Older] # NoState /\ slock = Older
      BY <2>5 DEF OlderEnds
    <3>3. st[Older][w] = file[w]
      BY <2>5, <3>2 DEF IInv, Saves, Removed
    <3>4. st[Older] \in States
      BY <3>2 DEF IInv, Typed, TypeOK, Writers, States
    <3>5. file'[w] = Superseding(file[w], file[w], FinishedRound(file[w], t, q, n))
      BY <2>5, <3>1, <3>3, <3>4 DEF States
    <3>6. FinishedRound(file[w], t, q, n) \in Workflow
      BY <2>1, FinishedRoundType
    <3>7. SameRound(file[w], file[w])
      BY SameRoundEquivalence
    <3>8. QED
      BY <2>1, <3>5, <3>6, <3>7, SupersedingKept
  <2>6. ASSUME HandEdit PROVE file'[w] = file[w] \/ file'[w] = NoWorkflow
    BY <2>6 DEF HandEdit, IInv, Typed, TypeOK, Present
  <2>7. file'[w] # file[w] => (\E c \in Calls : WriteAtomic(c)) \/ OlderEnds \/ HandEdit
    BY FileWriters
  <2>8. QED
    BY <2>2, <2>3, <2>4, <2>5, <2>6, <2>7
<1>2. QED
  BY IInvHolds, <1>1, PTL DEF Spec, EvictedStaysEvicted

(* A file that does not decode is never replaced by a review, although the *)
(* call that writes decoded it some steps earlier, except when it was      *)
(* broken in between: Save does not look at it again (state.go,            *)
(* Store.Save).                                                            *)
THEOREM BrokenFileStays == Spec => BrokenFileKept
<1> DEFINE Stays ==
      ~ readable /\ ~ overtaken => UNCHANGED <<file, readable>> \/ edits' # edits
<1>1. IInv /\ [Next]_vars => Stays
  <2> SUFFICES ASSUME IInv, [Next]_vars, ~ readable, ~ overtaken
               PROVE  UNCHANGED <<file, readable>> \/ edits' # edits
    OBVIOUS
  <2>1. ASSUME NEW c \in Calls PROVE ~ WriteAtomic(c)
    BY DEF WriteAtomic, IInv, Saves
  <2>2. ASSUME OlderEnds PROVE UNCHANGED <<file, readable>>
    BY <2>2 DEF OlderEnds, IInv, Saves
  <2>3. ASSUME HandEdit PROVE edits' # edits
    <3>1. edits' = edits + 1 /\ edits \in Nat
      BY <2>3 DEF HandEdit, IInv, Typed, TypeOK
    <3>2. QED BY <3>1
  <2>4. QED
    BY <2>1, <2>2, <2>3, FileWriters
<1>2. QED
  BY IInvHolds, <1>1, PTL DEF Spec, BrokenFileKept

(* What can happen to a call in the eviction loop: a step of its own, the  *)
(* end of its server, or nothing.                                          *)
LEMMA EvictionSteps ==
  ASSUME Typed, [Next]_vars, NEW e \in Calls, pc[e] = "evicting"
  PROVE  \/ EvictRecord(e) /\ pc'[e] = "evicting"
         \/ SaveAgain(e) /\ pc'[e] = "writing" /\ st'[e] = st[e]
         \/ EvictionFails(e) /\ st'[e] = st[e]
         \/ pc'[e] = "idle" /\ st'[e] = NoState
         \/ pc'[e] = "evicting" /\ st'[e] = st[e]
<1> DEFINE Goal == \/ EvictRecord(e) /\ pc'[e] = "evicting"
                   \/ SaveAgain(e) /\ pc'[e] = "writing" /\ st'[e] = st[e]
                   \/ EvictionFails(e) /\ st'[e] = st[e]
                   \/ pc'[e] = "idle" /\ st'[e] = NoState
                   \/ pc'[e] = "evicting" /\ st'[e] = st[e]
<1> USE ServiceAssumption DEF Typed, TypeOK, Writers, Goto, Return, Forget, locks, callData, env
<1>1. ASSUME NEW c \in Calls, Submit(c) PROVE Goal
  BY <1>1 DEF Submit
<1>2. ASSUME NEW c \in Calls, AcquireWorkflowLock(c) PROVE Goal
  BY <1>2 DEF AcquireWorkflowLock
<1>3. ASSUME NEW c \in Calls, WorkflowLockRefused(c) PROVE Goal
  BY <1>3 DEF WorkflowLockRefused
<1>4. ASSUME NEW c \in Calls, AcquireStateLock(c) PROVE Goal
  BY <1>4 DEF AcquireStateLock
<1>5. ASSUME NEW c \in Calls, StateLockRefused(c) PROVE Goal
  BY <1>5 DEF StateLockRefused
<1>6. ASSUME NEW c \in Calls, LoadWorkflow(c) PROVE Goal
  BY <1>6 DEF LoadWorkflow
<1>7. ASSUME NEW c \in Calls, ReplayReview(c) PROVE Goal
  BY <1>7 DEF ReplayReview
<1>8. ASSUME NEW c \in Calls, ValidateTarget(c) PROVE Goal
  BY <1>8 DEF ValidateTarget
<1>9. ASSUME NEW c \in Calls, NewReviewer(c) PROVE Goal
  BY <1>9 DEF NewReviewer
<1>10. ASSUME NEW c \in Calls, SetupFails(c) PROVE Goal
  BY <1>10 DEF SetupFails
<1>11. ASSUME NEW c \in Calls, ResumeThread(c) PROVE Goal
  BY <1>11 DEF ResumeThread
<1>12. ASSUME NEW c \in Calls, StartThread(c) PROVE Goal
  BY <1>12 DEF StartThread
<1>13. ASSUME NEW c \in Calls, ReviewFails(c) PROVE Goal
  BY <1>13 DEF ReviewFails
<1>14. ASSUME NEW c \in Calls, Review(c) PROVE Goal
  BY <1>14 DEF Review
<1>15. ASSUME NEW c \in Calls, SaveCompleted(c) PROVE Goal
  BY <1>15 DEF SaveCompleted
<1>16. ASSUME NEW c \in Calls, WriteAtomic(c) PROVE Goal
  BY <1>16 DEF WriteAtomic
<1>17. ASSUME NEW c \in Calls, WriteFails(c) PROVE Goal
  BY <1>17 DEF WriteFails
<1>18. ASSUME NEW c \in Calls, SaveTooLarge(c) PROVE Goal
  BY <1>18 DEF SaveTooLarge
<1>19. ASSUME NEW c \in Calls, EvictRecord(c) PROVE Goal
  <2>1. CASE c = e
    BY <1>19, <2>1 DEF EvictRecord
  <2>2. CASE c # e
    BY <1>19, <2>2 DEF EvictRecord
  <2>3. QED BY <2>1, <2>2
<1>20. ASSUME NEW c \in Calls, SaveAgain(c) PROVE Goal
  BY <1>20 DEF SaveAgain
<1>21. ASSUME NEW c \in Calls, EvictionFails(c) PROVE Goal
  <2>1. CASE c = e
    BY <1>21, <2>1 DEF EvictionFails
  <2>2. CASE c # e
    BY <1>21, <2>2 DEF EvictionFails
  <2>3. QED BY <2>1, <2>2
<1>22. ASSUME NEW c \in Calls, SyncDir(c) PROVE Goal
  BY <1>22 DEF SyncDir
<1>23. ASSUME NEW c \in Calls, ReleaseStateLock(c) PROVE Goal
  BY <1>23 DEF ReleaseStateLock
<1>24. ASSUME NEW c \in Calls, CloseReviewer(c) PROVE Goal
  BY <1>24 DEF CloseReviewer
<1>25. ASSUME NEW c \in Calls, ReleaseWorkflowLock(c) PROVE Goal
  BY <1>25 DEF ReleaseWorkflowLock
<1>26. ASSUME NEW c \in Calls, Cancel(c) PROVE Goal
  BY <1>26 DEF Cancel
<1>27. ASSUME NEW s \in Servers, Crash(s) PROVE Goal
  BY <1>27 DEF Crash
<1>28. ASSUME NEW t \in Threads, OrphanExits(t) PROVE Goal
  BY <1>28 DEF OrphanExits
<1>29. ASSUME OlderBegins PROVE Goal
  BY <1>29 DEF OlderBegins
<1>30. ASSUME OlderEnds PROVE Goal
  BY <1>30 DEF OlderEnds
<1>31. ASSUME HandEdit PROVE Goal
  BY <1>31 DEF HandEdit
<1>32. ASSUME UNCHANGED vars PROVE Goal
  BY <1>32 DEF vars
<1>33. QED
  BY <1>1, <1>2, <1>3, <1>4, <1>5, <1>6, <1>7, <1>8, <1>9, <1>10, <1>11, <1>12, <1>13,
     <1>14, <1>15, <1>16, <1>17, <1>18, <1>19, <1>20, <1>21, <1>22, <1>23, <1>24, <1>25,
     <1>26, <1>27, <1>28, <1>29, <1>30, <1>31, <1>32
  DEF Next, CallStep, Environment

(* No record is evicted from a State that would already fit, although the  *)
(* loop only estimates what each eviction has freed (review.go,            *)
(* saveEvictingHistory).                                                   *)
THEOREM EvictionsNeeded == Spec => EvictedOnlyWhenTooLarge
<1> DEFINE Needed ==
      \A c \in Calls :
        pc[c] = "evicting" /\ st'[c] # st[c] /\ st'[c] # NoState => TooLarge(st[c])
<1>1. IInv /\ [Next]_vars => Needed
  <2> SUFFICES ASSUME IInv, [Next]_vars, NEW c \in Calls,
                      pc[c] = "evicting", st'[c] # st[c], st'[c] # NoState
               PROVE  TooLarge(st[c])
    OBVIOUS
  <2>1. EvictRecord(c)
    BY EvictionSteps DEF IInv
  <2>2. QED
    BY <2>1, EvictingIsTooLarge DEF EvictRecord, IInv
<1>2. QED
  BY IInvHolds, <1>1, PTL DEF Spec, EvictedOnlyWhenTooLarge

(* A live call gives up on the size of the file only when no ledger is     *)
(* left and the newest reviews alone exceed the limit (review.go,          *)
(* saveEvictingHistory).                                                   *)
THEOREM HistoryDoesNotBlock == Spec => HistoryNeverBlocksSave
<1> DEFINE GivesUpLast ==
      \A c \in Calls :
        /\ pc[c] = "evicting" /\ pc'[c] = "stateUnlock" /\ live[c]
        => /\ \A w \in Workflows : st[c][w] # NoWorkflow => st[c][w].history = << >>
           /\ TooLarge(st[c])
<1>1. IInv /\ [Next]_vars => GivesUpLast
  <2> SUFFICES ASSUME IInv, [Next]_vars, NEW c \in Calls,
                      pc[c] = "evicting", pc'[c] = "stateUnlock", live[c]
               PROVE  /\ \A w \in Workflows : st[c][w] # NoWorkflow => st[c][w].history = << >>
                      /\ TooLarge(st[c])
    OBVIOUS
  <2>1. EvictionFails(c)
    BY EvictionSteps DEF IInv
  <2>2. Evicting(c) /\ Candidates(st[c]) = {}
    BY <2>1 DEF EvictionFails
  <2>3. DOMAIN st[c] = Workflows
    BY DEF IInv, Typed, Frames, States
  <2>4. QED
    BY <2>2, <2>3, EvictingIsTooLarge DEF IInv, Candidates, Present
<1>2. QED
  BY IInvHolds, <1>1, PTL DEF Spec, HistoryNeverBlocksSave

-----------------------------------------------------------------------------
(* The service implements the registry.                                    *)

(* What a round replays is a round, so it is told from none at all.        *)
LEMMA LatestIsRound ==
  ASSUME Typed, NEW w \in Workflows
  PROVE  (Latest[w] = NoWorkflow) = (file[w] = NoWorkflow)
<1>1. CASE file[w] = NoWorkflow
  BY <1>1 DEF Latest
<1>2. CASE file[w] # NoWorkflow
  <2>1. file[w] \in Workflow
    BY <1>2 DEF Typed, TypeOK
  <2>2. Replayed(file[w]) \in [thread : Threads, hash : Requests, round : Nat, review : Nat]
    BY <2>1 DEF Replayed, Workflow
  <2>3. Latest[w] # NoWorkflow
    BY <1>2, <2>2, NoWorkflowAssumption DEF Latest
  <2>4. QED BY <1>2, <2>3
<1>3. QED
  BY <1>1, <1>2

(* Steps within a call are no step of the registry.                        *)
LEMMA RegistryStutters ==
  ASSUME UNCHANGED file, \A c \in Calls : CallOf(c)' = CallOf(c)
  PROVE  UNCHANGED <<Latest, CallsOf>>
<1>1. Latest' = Latest
  BY DEF Latest
<1> DEFINE F(c) == CallOf(c)
           Fp(c) == CallOf(c)'
<1>2. \A c \in Calls : Fp(c) = F(c)
  OBVIOUS
<1>3. CallsOf = [c \in Calls |-> F(c)] /\ CallsOf' = [c \in Calls |-> Fp(c)]
  BY DEF CallsOf
<1> HIDE DEF F, Fp
<1>4. CallsOf' = CallsOf
  BY <1>2, <1>3
<1>5. QED
  BY <1>1, <1>4

(* A call that gives up, before its round is complete or after it, fails.  *)
LEMMA RegistryFails ==
  ASSUME NEW c \in Calls, UNCHANGED file,
         CallOf(c).phase \notin {"idle", "failed"}, CallOf(c)' = [phase |-> "failed"],
         \A d \in Calls \ {c} : CallOf(d)' = CallOf(d)
  PROVE  Registry!Next
<1>1. Latest' = Latest
  BY DEF Latest
<1> DEFINE F(d) == CallOf(d)
           Fp(d) == CallOf(d)'
<1>2. /\ F(c).phase \notin {"idle", "failed"} /\ Fp(c) = [phase |-> "failed"]
      /\ \A d \in Calls \ {c} : Fp(d) = F(d)
  OBVIOUS
<1>3. CallsOf = [d \in Calls |-> F(d)] /\ CallsOf' = [d \in Calls |-> Fp(d)]
  BY DEF CallsOf
<1> HIDE DEF F, Fp
<1>4. CallsOf' = [CallsOf EXCEPT ![c] = [phase |-> "failed"]]
  BY <1>2, <1>3
<1>5. CallsOf[c] # [phase |-> "failed"] /\ CallsOf[c] # [phase |-> "idle"]
  <2>1. CallsOf[c] = F(c)
    BY <1>3
  <2>2. QED BY <1>2, <2>1
<1>6. Registry!Fail(c)
  BY <1>1, <1>4, <1>5 DEF Registry!Fail, Registry!Idle, Registry!Failed
<1>7. QED
  BY <1>6 DEF Registry!Next

(* A call that returns ends, and so do all the calls of a server that      *)
(* dies; calls that were idle do not notice.                               *)
LEMMA RegistryEnds ==
  ASSUME NEW ended \in SUBSET Calls, UNCHANGED file,
         \A d \in ended : CallOf(d)' = [phase |-> "idle"],
         \A d \in Calls \ ended : CallOf(d)' = CallOf(d)
  PROVE  Registry!Next \/ UNCHANGED <<Latest, CallsOf>>
<1>1. Latest' = Latest
  BY DEF Latest
<1> DEFINE F(d) == CallOf(d)
           Fp(d) == CallOf(d)'
<1>2. /\ \A d \in ended : Fp(d) = [phase |-> "idle"]
      /\ \A d \in Calls \ ended : Fp(d) = F(d)
  OBVIOUS
<1>3. CallsOf = [d \in Calls |-> F(d)] /\ CallsOf' = [d \in Calls |-> Fp(d)]
  BY DEF CallsOf
<1> HIDE DEF F, Fp
<1>4. CASE \A d \in ended : F(d) = [phase |-> "idle"]
  <2>1. CallsOf' = CallsOf
    BY <1>2, <1>3, <1>4
  <2>2. QED BY <1>1, <2>1
<1>5. ASSUME NEW d \in ended, F(d) # [phase |-> "idle"] PROVE Registry!Next
  <2>1. CallsOf[d] # [phase |-> "idle"]
    BY <1>3, <1>5
  <2>2. CallsOf' = [e \in Calls |-> IF e \in ended THEN [phase |-> "idle"] ELSE CallsOf[e]]
    BY <1>2, <1>3
  <2>3. Registry!End(ended)
    BY <1>1, <2>1, <2>2 DEF Registry!End, Registry!Idle
  <2>4. QED
    BY <2>3 DEF Registry!Next
<1>6. QED
  BY <1>4, <1>5

(* A call is submitted as it is in the registry.                           *)
LEMMA RegistrySubmits ==
  ASSUME IInv, NEW c \in Calls, Submit(c)
  PROVE  Registry!Next
<1>1. PICK w \in Workflows, q \in Requests :
        req' = [req EXCEPT ![c] = [workflow |-> w, hash |-> q]]
  BY DEF Submit
<1>2. Latest' = Latest
  BY DEF Latest, Submit
<1> DEFINE F(d) == CallOf(d)
           Fp(d) == CallOf(d)'
<1>3. /\ pc[c] = "idle" /\ pc'[c] = "workflowLock" /\ outcome'[c] = "none"
      /\ req'[c] = [workflow |-> w, hash |-> q]
      /\ \A d \in Calls \ {c} : pc'[d] = pc[d] /\ req'[d] = req[d]
      /\ UNCHANGED <<outcome, done, wf>>
  BY <1>1 DEF Submit, Goto, env, locks, callData, IInv, Typed, TypeOK, Rounds, Outcomes
<1>4. /\ F(c) = [phase |-> "idle"]
      /\ Fp(c) = [phase |-> "pending", workflow |-> w, hash |-> q]
  BY <1>3 DEF CallOf
<1>5. \A d \in Calls \ {c} : Fp(d) = F(d)
  BY <1>3 DEF CallOf
<1>6. CallsOf = [d \in Calls |-> F(d)] /\ CallsOf' = [d \in Calls |-> Fp(d)]
  BY DEF CallsOf
<1> HIDE DEF F, Fp
<1>7. /\ CallsOf[c] = [phase |-> "idle"]
      /\ CallsOf' = [CallsOf EXCEPT ![c] = [phase |-> "pending", workflow |-> w, hash |-> q]]
  BY <1>4, <1>5, <1>6
<1>8. Registry!Submit(c, w, q)
  BY <1>2, <1>7 DEF Registry!Submit, Registry!Idle, Registry!Pending
<1>9. QED
  BY <1>8 DEF Registry!Next

(* A replay answers the newest round, since the copy is current.           *)
LEMMA RegistryReplays ==
  ASSUME IInv, edits = 0, NEW c \in Calls, ReplayReview(c)
  PROVE  Registry!Next
<1> DEFINE w == req[c].workflow
           q == req[c].hash
           F(d) == CallOf(d)
           Fp(d) == CallOf(d)'
<1>1. Latest' = Latest
  BY DEF Latest, ReplayReview
<1>2. /\ pc[c] = "target" /\ pc'[c] = "unlock" /\ outcome[c] = "none" /\ outcome'[c] = "replay"
      /\ \A d \in Calls \ {c} : pc'[d] = pc[d] /\ outcome'[d] = outcome[d]
      /\ UNCHANGED <<req, done, wf>>
  BY DEF ReplayReview, Return, Goto, callData, IInv, Typed, TypeOK, Rounds
<1>3. w \in Workflows /\ q \in Requests
  BY <1>2 DEF IInv, Typed, Frames, Request
<1>4. wf[c] # NoWorkflow /\ wf[c].hash = q
  BY DEF ReplayReview, Replays, Known
<1>5. SameRound(file[w], wf[c])
  BY <1>2 DEF IInv, Copies, CopySteps
<1>6. file[w] # NoWorkflow /\ Latest[w] = Replayed(file[w]) /\ Replayed(file[w]) = Replayed(wf[c])
  BY <1>3, <1>4, <1>5 DEF SameRound, SameReplayFields, Replayed, Latest
<1>7. Latest[w] # NoWorkflow
  BY <1>3, <1>6, LatestIsRound DEF IInv
<1>8. Latest[w].hash = q
  BY <1>4, <1>6 DEF Replayed
<1>9. /\ F(c) = [phase |-> "pending", workflow |-> w, hash |-> q]
      /\ Fp(c) = [phase |-> "replay", result |-> Latest[w]]
  BY <1>2, <1>6 DEF CallOf
<1>10. \A d \in Calls \ {c} : Fp(d) = F(d)
  BY <1>2 DEF CallOf
<1>11. CallsOf = [d \in Calls |-> F(d)] /\ CallsOf' = [d \in Calls |-> Fp(d)]
  BY DEF CallsOf
<1> HIDE DEF F, Fp, w, q
<1>12. /\ CallsOf[c] = [phase |-> "pending", workflow |-> w, hash |-> q]
       /\ CallsOf' = [CallsOf EXCEPT ![c] = [phase |-> "replay", result |-> Latest[w]]]
  BY <1>9, <1>10, <1>11
<1>13. Registry!Replay(c, w, q)
  BY <1>1, <1>7, <1>8, <1>12 DEF Registry!Replay, Registry!Pending, Registry!Answer
<1>14. QED
  BY <1>3, <1>13 DEF Registry!Next

(* The rename makes a round the newest: the next number, on the workflow's *)
(* thread or on one of its own, for a request that was not yet answered.   *)
LEMMA RegistryCompletes ==
  ASSUME IInv, edits = 0, NEW c \in Calls, WriteAtomic(c)
  PROVE  Registry!Next
<1> DEFINE w == req[c].workflow
           q == req[c].hash
           new == Replayed(done[c])
           F(d) == CallOf(d)
           Fp(d) == CallOf(d)'
<1>1. /\ pc[c] = "writing" /\ pc'[c] = "syncDir" /\ file' = st[c] /\ outcome[c] = "none"
      /\ \A d \in Calls \ {c} : pc'[d] = pc[d]
      /\ UNCHANGED <<req, done, wf, outcome>>
  BY DEF WriteAtomic, Goto, callData, IInv, Typed, TypeOK, Rounds
<1>2. w \in Workflows /\ q \in Requests /\ done[c] \in Workflow /\ st[c] \in States
  BY <1>1 DEF IInv, Typed, Frames, Request
<1>3. done[c] # NoWorkflow
  BY <1>2, NoWorkflowAssumption
<1>4. /\ SameRound(file[w], wf[c])
      /\ SameRound(st[c][w], done[c])
      /\ \A v \in Workflows \ {w} : Trimmed(file[v], st[c][v])
  BY <1>1 DEF IInv, Saves, Removed
<1>5. /\ done[c].thread = thread[c] /\ done[c].hash = q /\ done[c].round = RoundAfter(wf[c])
      /\ done[c].review \in ReviewSizes /\ ~ Replays(c)
      /\ Known(c) => thread[c] = wf[c].thread
  BY <1>1 DEF IInv, Rounds, SaveSteps, CopySteps
<1>6. Latest' = [Latest EXCEPT ![w] = new]
  <2>1. \A v \in Workflows \ {w} : Latest'[v] = Latest[v]
    <3> SUFFICES ASSUME NEW v \in Workflows \ {w} PROVE Latest'[v] = Latest[v]
      OBVIOUS
    <3>1. SameRound(file'[v], file[v])
      BY <1>1, <1>4, TrimmedSameRound DEF IInv, Typed, TypeOK
    <3>2. QED
      BY <3>1 DEF SameRound, SameReplayFields, Latest, Replayed
  <2>2. Latest'[w] = new
    BY <1>1, <1>2, <1>3, <1>4 DEF SameRound, SameReplayFields, Latest, Replayed
  <2>3. Latest = [v \in Workflows |-> Latest[v]] /\ Latest' = [v \in Workflows |-> Latest'[v]]
    BY DEF Latest
  <2> HIDE DEF new
  <2>4. QED
    BY <2>1, <2>2, <2>3
<1>7. /\ F(c) = [phase |-> "pending", workflow |-> w, hash |-> q]
      /\ Fp(c) = [phase |-> "review", result |-> new]
  BY <1>1 DEF CallOf
<1>8. \A d \in Calls \ {c} : Fp(d) = F(d)
  BY <1>1 DEF CallOf
<1>9. CallsOf = [d \in Calls |-> F(d)] /\ CallsOf' = [d \in Calls |-> Fp(d)]
  BY DEF CallsOf
<1>10. /\ CallsOf[c] = [phase |-> "pending", workflow |-> w, hash |-> q]
       /\ CallsOf' = [CallsOf EXCEPT ![c] = [phase |-> "review", result |-> new]]
  <2> HIDE DEF F, Fp, w, q, new
  <2>1. QED
    BY <1>7, <1>8, <1>9
<1>11. /\ file[w] # NoWorkflow => Known(c) /\ Latest[w].thread = wf[c].thread
                                  /\ Latest[w].hash = wf[c].hash
       /\ Registry!RoundOf(Latest[w]) + 1 = RoundAfter(wf[c])
  <2>1. CASE file[w] = NoWorkflow
    BY <1>2, <1>4, <2>1, LatestIsRound
    DEF IInv, SameRound, RoundAfter, Registry!RoundOf
  <2>2. CASE file[w] # NoWorkflow
    <3>1. /\ wf[c] # NoWorkflow /\ file[w].thread = wf[c].thread
          /\ file[w].hash = wf[c].hash /\ file[w].round = wf[c].round
      BY <1>4, <2>2 DEF SameRound, SameReplayFields
    <3>2. Latest[w] = Replayed(file[w]) /\ Latest[w] # NoWorkflow
      BY <1>2, <2>2, LatestIsRound DEF IInv, Latest
    <3>3. QED
      BY <2>2, <3>1, <3>2 DEF Replayed, Known, RoundAfter, Registry!RoundOf
  <2>3. QED BY <2>1, <2>2
<1>12. new \in [thread : Threads, hash : {q}, round : {Registry!RoundOf(Latest[w]) + 1},
                review : ReviewSizes]
  BY <1>2, <1>5, <1>11 DEF Replayed, Workflow
<1>13. ASSUME Latest[w] = NoWorkflow, NEW v \in Workflows, Latest[v] # NoWorkflow
       PROVE  Latest[v].thread # new.thread
  <2>1. file[w] = NoWorkflow /\ file[v] # NoWorkflow /\ Latest[v].thread = file[v].thread
    BY <1>2, <1>13, LatestIsRound DEF IInv, Latest, Replayed
  <2>2. Owns(w, done[c].thread)
    BY <1>1, <1>3 DEF Owns, InFrame, LockedSteps
  <2>3. file[v].thread = done[c].thread => Owns(v, done[c].thread)
    BY <2>1 DEF Owns
  <2>4. done[c].thread \in Threads
    BY <1>2 DEF Workflow
  <2>5. QED
    BY <1>2, <2>1, <2>2, <2>3, <2>4 DEF IInv, Apart, Replayed
<1>14. ASSUME Latest[w] # NoWorkflow
       PROVE  new.thread = Latest[w].thread /\ q # Latest[w].hash
  <2>1. file[w] # NoWorkflow
    BY <1>2, <1>14, LatestIsRound DEF IInv
  <2>2. QED
    BY <1>5, <1>11, <2>1 DEF Replays, Replayed
<1> HIDE DEF F, Fp, w, q, new
<1>15. Registry!Complete(c, w, q)
  BY <1>6, <1>10, <1>12, <1>13, <1>14
  DEF Registry!Complete, Registry!Pending, Registry!Answer
<1>16. QED
  BY <1>2, <1>15 DEF Registry!Next

(* The first state of the service is the registry's.                       *)
LEMMA RegistryInit == Init => Registry!Init
BY DEF Init, Registry!Init, Registry!Idle, Latest, CallsOf, CallOf

(* Each step of a review is a step of the registry, or none.               *)
LEMMA RegistryStep ==
  IInv /\ edits = 0 /\ edits' = 0 /\ [Next]_vars => [Registry!Next]_<<Latest, CallsOf>>
<1> DEFINE Refined == Registry!Next \/ UNCHANGED <<Latest, CallsOf>>
           Fails(c) ==
             /\ CallOf(c).phase \notin {"idle", "failed"}
             /\ CallOf(c)' = [phase |-> "failed"]
             /\ \A d \in Calls \ {c} : CallOf(d)' = CallOf(d)
           Ends(ended) ==
             /\ \A d \in ended : CallOf(d)' = [phase |-> "idle"]
             /\ \A d \in Calls \ ended : CallOf(d)' = CallOf(d)
<1> SUFFICES ASSUME IInv, edits = 0, edits' = 0, [Next]_vars PROVE Refined
  OBVIOUS
<1>silent. UNCHANGED file /\ (\A c \in Calls : CallOf(c)' = CallOf(c)) => Refined
  BY RegistryStutters
<1>fails. ASSUME NEW c \in Calls, UNCHANGED file, Fails(c) PROVE Refined
  BY <1>fails, RegistryFails
<1>ends. ASSUME NEW ended \in SUBSET Calls, UNCHANGED file, Ends(ended) PROVE Refined
  BY <1>ends, RegistryEnds
<1>submit. ASSUME NEW c \in Calls, Submit(c) PROVE Refined
  BY <1>submit, RegistrySubmits
<1>replay. ASSUME NEW c \in Calls, ReplayReview(c) PROVE Refined
  BY <1>replay, RegistryReplays
<1>complete. ASSUME NEW c \in Calls, WriteAtomic(c) PROVE Refined
  BY <1>complete, RegistryCompletes
<1> HIDE DEF Refined
<1> USE DEF IInv, Typed, TypeOK, Rounds, CallOf, Goto, Return, Forget, locks, callData, env
<1>1. ASSUME NEW c \in Calls, Submit(c) PROVE Refined
  BY <1>1, <1>submit
<1>2. ASSUME NEW c \in Calls, AcquireWorkflowLock(c) PROVE Refined
  <2>1. UNCHANGED file /\ \A d \in Calls : CallOf(d)' = CallOf(d)
    BY <1>2 DEF AcquireWorkflowLock
  <2>2. QED
    BY <2>1, <1>silent
<1>3. ASSUME NEW c \in Calls, WorkflowLockRefused(c) PROVE Refined
  <2>1. UNCHANGED file /\ Ends({c})
    BY <1>3 DEF WorkflowLockRefused
  <2>2. {c} \in SUBSET Calls
    OBVIOUS
  <2> HIDE DEF Ends
  <2>3. QED
    BY <2>1, <2>2, <1>ends
<1>4. ASSUME NEW c \in Calls, AcquireStateLock(c) PROVE Refined
  <2>1. UNCHANGED file /\ \A d \in Calls : CallOf(d)' = CallOf(d)
    BY <1>4 DEF AcquireStateLock
  <2>2. QED
    BY <2>1, <1>silent
<1>5. ASSUME NEW c \in Calls, StateLockRefused(c) PROVE Refined
  <2>1. UNCHANGED file /\ Fails(c)
    BY <1>5, SMTT(20) DEF StateLockRefused
  <2>2. QED
    BY <2>1, <1>fails
<1>6. ASSUME NEW c \in Calls, LoadWorkflow(c) PROVE Refined
  <2>1. UNCHANGED file
    BY <1>6 DEF LoadWorkflow
  <2>2. /\ pc[c] = "loading" /\ outcome[c] = "none" /\ UNCHANGED <<req, done>>
        /\ \A d \in Calls \ {c} : pc'[d] = pc[d] /\ wf'[d] = wf[d] /\ outcome'[d] = outcome[d]
    BY <1>6 DEF LoadWorkflow
  <2>3. \/ pc'[c] = "unlock" /\ outcome'[c] = "failed"
        \/ pc'[c] = "target" /\ outcome'[c] = "none"
    BY <1>6, <2>2 DEF LoadWorkflow
  <2>4. \A d \in Calls \ {c} : CallOf(d)' = CallOf(d)
    BY <2>2
  <2>5. CallOf(c).phase = "pending"
    BY <2>2
  <2>6. CallOf(c)' = [phase |-> "failed"] \/ CallOf(c)' = CallOf(c)
    BY <2>2, <2>3
  <2>7. CASE CallOf(c)' = [phase |-> "failed"]
    <3>1. CallOf(c).phase \notin {"idle", "failed"}
      BY <2>5
    <3>2. Fails(c)
      BY ONLY <2>4, <2>7, <3>1
    <3> HIDE DEF Fails
    <3>3. QED
      BY <2>1, <3>2, <1>fails
  <2>8. CASE CallOf(c)' = CallOf(c)
    <3>1. ASSUME NEW d \in Calls PROVE CallOf(d)' = CallOf(d)
      <4>1. CASE d = c
        BY <2>8, <4>1
      <4>2. CASE d # c
        BY <2>4, <4>2
      <4>3. QED BY <4>1, <4>2
    <3>2. QED
      BY ONLY <2>1, <3>1, <1>silent
  <2>9. QED
    BY <2>6, <2>7, <2>8
<1>7. ASSUME NEW c \in Calls, ReplayReview(c) PROVE Refined
  BY <1>7, <1>replay
<1>8. ASSUME NEW c \in Calls, ValidateTarget(c) PROVE Refined
  <2>1. UNCHANGED file /\ \A d \in Calls : CallOf(d)' = CallOf(d)
    BY <1>8 DEF ValidateTarget
  <2>2. QED
    BY <2>1, <1>silent
<1>9. ASSUME NEW c \in Calls, NewReviewer(c) PROVE Refined
  <2>1. UNCHANGED file /\ \A d \in Calls : CallOf(d)' = CallOf(d)
    BY <1>9 DEF NewReviewer
  <2>2. QED
    BY <2>1, <1>silent
<1>10. ASSUME NEW c \in Calls, SetupFails(c) PROVE Refined
  <2>1. UNCHANGED file /\ Fails(c)
    BY <1>10 DEF SetupFails
  <2>2. QED
    BY <2>1, <1>fails
<1>11. ASSUME NEW c \in Calls, ResumeThread(c) PROVE Refined
  <2>1. UNCHANGED file /\ \A d \in Calls : CallOf(d)' = CallOf(d)
    BY <1>11 DEF ResumeThread
  <2>2. QED
    BY <2>1, <1>silent
<1>12. ASSUME NEW c \in Calls, StartThread(c) PROVE Refined
  <2>1. UNCHANGED file /\ \A d \in Calls : CallOf(d)' = CallOf(d)
    BY <1>12 DEF StartThread
  <2>2. QED
    BY <2>1, <1>silent
<1>13. ASSUME NEW c \in Calls, ReviewFails(c) PROVE Refined
  <2>1. UNCHANGED file /\ Fails(c)
    BY <1>13 DEF ReviewFails
  <2>2. QED
    BY <2>1, <1>fails
<1>14. ASSUME NEW c \in Calls, Review(c) PROVE Refined
  <2>1. UNCHANGED file /\ \A d \in Calls : CallOf(d)' = CallOf(d)
    BY <1>14 DEF Review
  <2>2. QED
    BY <2>1, <1>silent
<1>15. ASSUME NEW c \in Calls, SaveCompleted(c) PROVE Refined
  <2>1. UNCHANGED file
    BY <1>15 DEF SaveCompleted
  <2>2. Fails(c) \/ \A d \in Calls : CallOf(d)' = CallOf(d)
    BY <1>15 DEF SaveCompleted
  <2>3. QED
    BY <2>1, <2>2, <1>silent, <1>fails
<1>16. ASSUME NEW c \in Calls, WriteAtomic(c) PROVE Refined
  BY <1>16, <1>complete
<1>17. ASSUME NEW c \in Calls, WriteFails(c) PROVE Refined
  <2>1. UNCHANGED file /\ Fails(c)
    BY <1>17 DEF WriteFails
  <2>2. QED
    BY <2>1, <1>fails
<1>18. ASSUME NEW c \in Calls, SaveTooLarge(c) PROVE Refined
  <2>1. UNCHANGED file /\ \A d \in Calls : CallOf(d)' = CallOf(d)
    BY <1>18 DEF SaveTooLarge
  <2>2. QED
    BY <2>1, <1>silent
<1>19. ASSUME NEW c \in Calls, EvictRecord(c) PROVE Refined
  <2>1. UNCHANGED file /\ \A d \in Calls : CallOf(d)' = CallOf(d)
    BY <1>19 DEF EvictRecord, Evicting
  <2>2. QED
    BY <2>1, <1>silent
<1>20. ASSUME NEW c \in Calls, SaveAgain(c) PROVE Refined
  <2>1. UNCHANGED file /\ \A d \in Calls : CallOf(d)' = CallOf(d)
    BY <1>20 DEF SaveAgain
  <2>2. QED
    BY <2>1, <1>silent
<1>21. ASSUME NEW c \in Calls, EvictionFails(c) PROVE Refined
  <2>1. UNCHANGED file /\ Fails(c)
    BY <1>21 DEF EvictionFails, Evicting
  <2>2. QED
    BY <2>1, <1>fails
<1>22. ASSUME NEW c \in Calls, SyncDir(c) PROVE Refined
  <2>1. UNCHANGED file
    BY <1>22 DEF SyncDir
  <2>2. Fails(c) \/ \A d \in Calls : CallOf(d)' = CallOf(d)
    BY <1>22 DEF SyncDir
  <2>3. QED
    BY <2>1, <2>2, <1>silent, <1>fails
<1>23. ASSUME NEW c \in Calls, ReleaseStateLock(c) PROVE Refined
  <2>1. UNCHANGED file /\ \A d \in Calls : CallOf(d)' = CallOf(d)
    BY <1>23 DEF ReleaseStateLock
  <2>2. QED
    BY <2>1, <1>silent
<1>24. ASSUME NEW c \in Calls, CloseReviewer(c) PROVE Refined
  <2>1. UNCHANGED file /\ \A d \in Calls : CallOf(d)' = CallOf(d)
    BY <1>24 DEF CloseReviewer, ChildExits
  <2>2. QED
    BY <2>1, <1>silent
<1>25. ASSUME NEW c \in Calls, ReleaseWorkflowLock(c) PROVE Refined
  <2>1. UNCHANGED file /\ Ends({c})
    BY <1>25 DEF ReleaseWorkflowLock
  <2>2. {c} \in SUBSET Calls
    OBVIOUS
  <2> HIDE DEF Ends
  <2>3. QED
    BY <2>1, <2>2, <1>ends
<1>26. ASSUME NEW c \in Calls, Cancel(c) PROVE Refined
  <2>1. UNCHANGED file /\ \A d \in Calls : CallOf(d)' = CallOf(d)
    BY <1>26 DEF Cancel
  <2>2. QED
    BY <2>1, <1>silent
<1>27. ASSUME NEW s \in Servers, Crash(s) PROVE Refined
  <2> DEFINE dead == {c \in Calls : ServerOf[c] = s}
  <2>1. UNCHANGED file /\ Ends(dead)
    BY <1>27 DEF Crash
  <2> HIDE DEF dead
  <2>2. dead \in SUBSET Calls
    BY DEF dead
  <2>3. QED
    BY <2>1, <2>2, <1>ends
<1>28. ASSUME NEW t \in Threads, OrphanExits(t) PROVE Refined
  <2>1. UNCHANGED file /\ \A d \in Calls : CallOf(d)' = CallOf(d)
    BY <1>28 DEF OrphanExits
  <2>2. QED
    BY <2>1, <1>silent
<1>29. ASSUME OlderBegins PROVE Refined
  BY <1>29 DEF OlderBegins
<1>30. ASSUME OlderEnds PROVE Refined
  BY <1>30 DEF OlderEnds, Copies
<1>31. ASSUME HandEdit PROVE Refined
  BY <1>31 DEF HandEdit
<1>32. ASSUME UNCHANGED vars PROVE Refined
  <2>1. UNCHANGED file /\ \A d \in Calls : CallOf(d)' = CallOf(d)
    BY <1>32 DEF vars
  <2>2. QED
    BY <2>1, <1>silent
<1>33. QED
  BY <1>1, <1>2, <1>3, <1>4, <1>5, <1>6, <1>7, <1>8, <1>9, <1>10, <1>11, <1>12, <1>13,
     <1>14, <1>15, <1>16, <1>17, <1>18, <1>19, <1>20, <1>21, <1>22, <1>23, <1>24, <1>25,
     <1>26, <1>27, <1>28, <1>29, <1>30, <1>31, <1>32
  DEF Next, CallStep, Environment

(* While no older Counterpoint and no human changes the file, the service  *)
(* keeps the promise of ReviewRegistry: each call takes effect at one      *)
(* instant between its submission and its answer, or not at all, and a     *)
(* repeated request replays the round that answered it.                    *)
THEOREM ServiceImplementsRegistry == Spec /\ [](edits = 0) => RegistrySpec
<1>1. IInv /\ edits = 0 /\ (edits = 0)' /\ [Next]_vars => [Registry!Next]_(Registry!vars)
  BY RegistryStep DEF Registry!vars
<1>2. QED
  BY IInvHolds, RegistryInit, <1>1, PTL DEF Spec, RegistrySpec, Registry!Spec
=============================================================================
