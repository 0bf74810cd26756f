---------------------------- MODULE ReviewService ----------------------------
(***************************************************************************)
(* Service.review of internal/review/review.go, run concurrently by calls  *)
(* in several Counterpoint servers over one shared state file, with the    *)
(* per-workflow locks and the state lock of internal/state.                *)
(*                                                                         *)
(* Git, the disposable checkout and the Codex turn are each one step with  *)
(* a nondeterministic outcome; the file, the locks, the copies a call      *)
(* takes of the file, and the threads whose writers the app-server         *)
(* children hold are modelled in full.                                     *)
(***************************************************************************)
EXTENDS Ledger

CONSTANTS
  Calls,        \* concurrent review calls; a call that ended may call again
  Servers,      \* Counterpoint processes
  ServerOf,     \* the server each call runs in
  Workflows,    \* workflow keys; numbers, since eviction breaks ties by key
  Requests,     \* request hashes
  Threads,      \* Codex thread ids
  ReviewSizes,  \* lengths of review texts
  StateLimit,   \* MaxStateFileSize
  MaxCrashes,   \* bound on server crashes
  MaxEdits,     \* bound on changes of the file by others
  Free, NoThread, NoState, Older, NoRequest

ASSUME ServiceAssumption ==
  /\ ServerOf \in [Calls -> Servers]
  /\ Workflows \subseteq Nat /\ IsFiniteSet(Workflows)
  /\ ReviewSizes \subseteq Nat \ {0}
  /\ StateLimit \in Nat
  /\ MaxCrashes \in Nat /\ MaxEdits \in Nat
  /\ Free \notin Calls /\ Older \notin Calls /\ Free # Older
  /\ NoThread \notin Threads

VARIABLES
  file,      \* the state file: a record or NoWorkflow for each key
  readable,  \* the file parses
  wlock,     \* holder of each workflow lock
  slock,     \* holder of the state lock
  loaded,    \* Store.loaded, shared by the calls of a server
  pc,        \* where each call is in review()
  req,       \* the workflow and the request hash of each call
  live,      \* the request context has not ended
  wf,        \* the record each call copied at its start
  thread,    \* the thread whose writer each call's child holds
  done,      \* the completed round each call is recording
  st,        \* the State each call, or Older, decoded for its save
  pressure,  \* counters of the eviction loop: over, freed, evicted
  outcome,   \* what each call is going to return
  orphans,   \* threads held by children of crashed servers
  crashes, edits,
  overtaken  \* history: the human edited the file under a program that holds slock

locks    == <<wlock, slock>>
callData == <<req, wf, thread, done, st, pressure>>
env      == <<orphans, crashes, edits, overtaken>>
vars == <<file, readable, wlock, slock, loaded, pc, req, live, wf, thread, done,
          st, pressure, outcome, orphans, crashes, edits, overtaken>>

-----------------------------------------------------------------------------
(* The steps of a call, in order.                                          *)

(* The workflow lock is held from here on, to the last deferred release.   *)
LockedSteps ==
  {"load", "loading", "target", "spawn", "thread", "turn", "save", "saving",
   "writing", "evicting", "syncDir", "stateUnlock", "close", "unlock"}

StateLockedSteps == {"loading", "saving", "writing", "evicting", "syncDir", "stateUnlock"}

Steps == {"idle", "workflowLock"} \cup LockedSteps

Outcomes == {"none", "review", "replay", "failed", "unsaved"}

Workflow == [thread : Threads, hash : Requests, round : Nat, review : Nat,
             history : Seq(HistoryRecord)]

ASSUME NoWorkflowAssumption ==
  /\ NoWorkflow \notin Workflow
  /\ NoWorkflow \notin [thread : Threads, hash : Requests, round : Nat, review : Nat]

ASSUME NoStateAssumption == NoState \notin [Workflows -> Workflow \cup {NoWorkflow}]

NoPressure == [over |-> 0, freed |-> 0, evicted |-> FALSE]

(* The programs that write the state file.                                 *)
Writers == Calls \cup {Older}

Known(c) == wf[c] # NoWorkflow

Goto(c, step) == pc' = [pc EXCEPT ![c] = step]

Return(c, result, step) ==
  /\ outcome' = [outcome EXCEPT ![c] = result]
  /\ Goto(c, step)

(* What ends with a call: its frame.                                      *)
Forget(cs) ==
  /\ req' = [c \in Calls |-> IF c \in cs THEN NoRequest ELSE req[c]]
  /\ wf' = [c \in Calls |-> IF c \in cs THEN NoWorkflow ELSE wf[c]]
  /\ done' = [c \in Calls |-> IF c \in cs THEN NoWorkflow ELSE done[c]]
  /\ outcome' = [c \in Calls |-> IF c \in cs THEN "none" ELSE outcome[c]]
  /\ pc' = [c \in Calls |-> IF c \in cs THEN "idle" ELSE pc[c]]

Init ==
  /\ file = [w \in Workflows |-> NoWorkflow]
  /\ readable = TRUE
  /\ wlock = [w \in Workflows |-> Free]
  /\ slock = Free
  /\ loaded = [s \in Servers |-> FALSE]
  /\ pc = [c \in Calls |-> "idle"]
  /\ req = [c \in Calls |-> NoRequest]
  /\ live = [c \in Calls |-> TRUE]
  /\ wf = [c \in Calls |-> NoWorkflow]
  /\ thread = [c \in Calls |-> NoThread]
  /\ done = [c \in Calls |-> NoWorkflow]
  /\ st = [a \in Writers |-> NoState]
  /\ pressure = [c \in Calls |-> NoPressure]
  /\ outcome = [c \in Calls |-> "none"]
  /\ orphans = {}
  /\ crashes = 0
  /\ edits = 0
  /\ overtaken = FALSE

-----------------------------------------------------------------------------
(* Entering: the workflow lock, then one read under the state lock.        *)

Submit(c) ==
  /\ pc[c] = "idle"
  /\ \E w \in Workflows, q \in Requests :
       req' = [req EXCEPT ![c] = [workflow |-> w, hash |-> q]]
  /\ live' = [live EXCEPT ![c] = TRUE]
  /\ Goto(c, "workflowLock")
  /\ UNCHANGED <<file, readable, locks, loaded, wf, thread, done, st, pressure, outcome, env>>

WorkflowLockFreeAlways(w) == TRUE

WorkflowLockFree(w) == wlock[w] = Free

AcquireWorkflowLock(c) ==
  /\ pc[c] = "workflowLock"
  /\ live[c]
  /\ WorkflowLockFree(req[c].workflow)
  /\ wlock' = [wlock EXCEPT ![req[c].workflow] = c]
  /\ Goto(c, "load")
  /\ UNCHANGED <<file, readable, slock, loaded, live, callData, outcome, env>>

(* The lock is still held by another call when the wait has elapsed.       *)
WorkflowBusyNever(c) == FALSE

WorkflowBusy(c) == wlock[req[c].workflow] # Free

(* Another round of the workflow is running, or the caller has gone.       *)
WorkflowLockRefused(c) ==
  /\ pc[c] = "workflowLock"
  /\ WorkflowBusy(c) \/ ~ live[c]
  /\ Forget({c})
  /\ UNCHANGED <<file, readable, locks, loaded, live, thread, st, pressure, env>>

StateLockFreeAlways == TRUE

StateLockFree == slock = Free

(* Taking the state lock, and the first statement of Store.Load, which     *)
(* clears the loaded flag of the server's one store.                       *)
AcquireStateLock(c) ==
  /\ pc[c] \in {"load", "save"}
  /\ live[c]
  /\ StateLockFree
  /\ slock' = c
  /\ loaded' = [loaded EXCEPT ![ServerOf[c]] = FALSE]
  /\ Goto(c, IF pc[c] = "load" THEN "loading" ELSE "saving")
  /\ UNCHANGED <<file, readable, wlock, live, callData, outcome, env>>

StateLockRefused(c) ==
  /\ pc[c] \in {"load", "save"}
  /\ slock # Free \/ ~ live[c]
  /\ IF pc[c] = "load"
     THEN Return(c, "failed", "unlock")
     ELSE Return(c, "unsaved", "close")
  /\ UNCHANGED <<file, readable, locks, loaded, live, callData, env>>

(* What Store.Load makes of the file's bytes.                              *)
DecodesAlways == TRUE

Decodes == readable

(* loadWorkflow: the copy, the release of the state lock, and the checks   *)
(* that refuse a record no further round can be built on.                  *)
LoadWorkflow(c) ==
  /\ pc[c] = "loading"
  /\ slock' = Free
  /\ overtaken' = FALSE
  /\ IF ~ Decodes
     THEN /\ Return(c, "failed", "unlock")
          /\ UNCHANGED <<loaded, wf>>
     ELSE /\ loaded' = [loaded EXCEPT ![ServerOf[c]] = TRUE]
          /\ wf' = [wf EXCEPT ![c] = file[req[c].workflow]]
          /\ IF wf'[c] # NoWorkflow /\ Unusable(wf'[c])
             THEN Return(c, "failed", "unlock")
             ELSE Goto(c, "target") /\ UNCHANGED outcome
  /\ UNCHANGED <<file, readable, wlock, live, req, thread, done, st, pressure, orphans,
                 crashes, edits>>

-----------------------------------------------------------------------------
(* Validation, replay, and the reviewer.                                   *)

(* The request validated to the hash the newest round answered.            *)
Replays(c) == Known(c) /\ wf[c].hash = req[c].hash

ReplayReview(c) ==
  /\ pc[c] = "target"
  /\ live[c]
  /\ Replays(c)
  /\ Return(c, "replay", "unlock")
  /\ UNCHANGED <<file, readable, locks, loaded, live, callData, env>>

ValidateTarget(c) ==
  /\ pc[c] = "target"
  /\ live[c]
  /\ ~ Replays(c)
  /\ Goto(c, "spawn")
  /\ UNCHANGED <<file, readable, locks, loaded, live, callData, outcome, env>>

NewReviewer(c) ==
  /\ pc[c] = "spawn"
  /\ live[c]
  /\ Goto(c, "thread")
  /\ UNCHANGED <<file, readable, locks, loaded, live, callData, outcome, env>>

(* Git refuses the target, the checkout cannot be prepared, the child does *)
(* not start, or the context ends.                                         *)
SetupFails(c) ==
  /\ pc[c] \in {"target", "spawn"}
  /\ Return(c, "failed", "unlock")
  /\ UNCHANGED <<file, readable, locks, loaded, live, callData, env>>

(* The app-server lets one process write a thread.                         *)
WriterFree(t) == t \notin orphans /\ \A d \in Calls : thread[d] # t

ResumeThread(c) ==
  /\ pc[c] = "thread"
  /\ Known(c)
  /\ WriterFree(wf[c].thread)
  /\ thread' = [thread EXCEPT ![c] = wf[c].thread]
  /\ Goto(c, "turn")
  /\ UNCHANGED <<file, readable, locks, loaded, live, req, wf, done, st, pressure, outcome, env>>

(* The records in the file, in a frame, or in a decoded State.             *)
Records ==
  ({file[v] : v \in Workflows} \cup {wf[c] : c \in Calls} \cup {done[c] : c \in Calls}
    \cup UNION {{st[a][v] : v \in Workflows} : a \in {b \in Writers : st[b] # NoState}})
  \ {NoWorkflow}

(* The ids in use anywhere: a started thread has a new one.                *)
UsedThreads ==
  {r.thread : r \in Records} \cup {thread[c] : c \in Calls} \cup orphans

(* Only a workflow without a record starts a thread; one whose thread does *)
(* not resume fails closed.                                                *)
NeedsThreadOrReplacement(c) == TRUE

NeedsThread(c) == ~ Known(c)

StartThread(c) ==
  /\ pc[c] = "thread"
  /\ NeedsThread(c)
  /\ \E t \in Threads \ UsedThreads : thread' = [thread EXCEPT ![c] = t]
  /\ Goto(c, "turn")
  /\ UNCHANGED <<file, readable, locks, loaded, live, req, wf, done, st, pressure, outcome, env>>

(* The thread call or the turn fails, times out or is cancelled.           *)
ReviewFails(c) ==
  /\ pc[c] \in {"thread", "turn"}
  /\ Return(c, "failed", "close")
  /\ UNCHANGED <<file, readable, locks, loaded, live, callData, env>>

RoundAfter(w) == IF w = NoWorkflow THEN 1 ELSE w.round + 1

FinishedRound(before, t, q, n) ==
  [thread |-> t, hash |-> q, round |-> RoundAfter(before), review |-> n,
   history |-> << >>]

(* The turn completes; a turn that finished wins over a context that ended *)
(* at the same moment.                                                     *)
Review(c) ==
  /\ pc[c] = "turn"
  /\ \E n \in ReviewSizes :
       done' = [done EXCEPT ![c] = FinishedRound(wf[c], thread[c], req[c].hash, n)]
  /\ Goto(c, "save")
  /\ UNCHANGED <<file, readable, locks, loaded, live, req, wf, thread, st, pressure, outcome, env>>

-----------------------------------------------------------------------------
(* saveCompleted and saveEvictingHistory.                                  *)

UnchangedPresence(c, fresh) == (fresh # NoWorkflow) = Known(c)

(* The record is as this call left it at its start, ledger aside.          *)
Unchanged(c, fresh) ==
  /\ (fresh # NoWorkflow) = Known(c)
  /\ Known(c) => SameReplayFields(fresh, wf[c]) /\ ~ InvalidHistory(fresh)

SupersedingFromCopy(before, fresh, new) ==
  IF before = NoWorkflow
  THEN new
  ELSE [new EXCEPT !.history =
          RetainHistory(before.history, NewHistoryRecord(before.round, before.review),
                        new.review)]

(* The ledger grows from the record in the file now, not from the copy:    *)
(* another review may have evicted part of it.                             *)
Superseding(before, fresh, new) ==
  IF before = NoWorkflow
  THEN new
  ELSE [new EXCEPT !.history =
          RetainHistory(fresh.history, NewHistoryRecord(before.round, before.review),
                        new.review)]

SaveCompleted(c) ==
  /\ pc[c] = "saving"
  /\ LET fresh == file[req[c].workflow]
     IN  IF Decodes /\ Unchanged(c, fresh)
         THEN /\ st' = [st EXCEPT ![c] =
                          [file EXCEPT ![req[c].workflow] =
                             Superseding(wf[c], fresh, done[c])]]
              /\ Goto(c, "writing")
              /\ UNCHANGED outcome
         ELSE /\ Return(c, "unsaved", "stateUnlock")
              /\ UNCHANGED st
  /\ loaded' = [loaded EXCEPT ![ServerOf[c]] = Decodes]
  /\ overtaken' = FALSE
  /\ UNCHANGED <<file, readable, locks, live, req, wf, thread, done, pressure, orphans,
                 crashes, edits>>

TooLargeSoftly(s) == EncodedBytes(s) + RecordFramingBytes > StateLimit

TooLarge(s) == EncodedBytes(s) > StateLimit

(* Store.Save up to the rename, which replaces the whole file, with what   *)
(* an editor may have saved there since the Load.                          *)
WriteAtomic(c) ==
  /\ pc[c] = "writing"
  /\ loaded[ServerOf[c]]
  /\ ~ TooLarge(st[c])
  /\ file' = st[c]
  /\ readable' = TRUE
  /\ Goto(c, "syncDir")
  /\ UNCHANGED <<locks, loaded, live, callData, outcome, env>>

(* The store was not loaded, or the temporary file could not be written.   *)
WriteFails(c) ==
  /\ pc[c] = "writing"
  /\ ~ TooLarge(st[c]) \/ ~ loaded[ServerOf[c]]
  /\ Return(c, "unsaved", "stateUnlock")
  /\ UNCHANGED <<file, readable, locks, loaded, live, callData, env>>

SaveTooLarge(c) ==
  /\ pc[c] = "writing"
  /\ loaded[ServerOf[c]]
  /\ TooLarge(st[c])
  /\ pressure' = [pressure EXCEPT ![c] =
       [over |-> EncodedBytes(st[c]) - StateLimit, freed |-> 0, evicted |-> FALSE]]
  /\ Goto(c, "evicting")
  /\ UNCHANGED <<file, readable, locks, loaded, live, req, wf, thread, done, st, outcome, env>>

Evicting(c) ==
  /\ pc[c] = "evicting"
  /\ ~ pressure[c].evicted \/ pressure[c].freed < pressure[c].over

(* One record goes: the oldest of the largest history.                     *)
EvictRecord(c) ==
  /\ Evicting(c)
  /\ live[c]
  /\ \E w \in Largest(st[c]) :
       /\ st' = [st EXCEPT ![c][w].history = Tail(@)]
       /\ pressure' = [pressure EXCEPT ![c] =
            [over |-> @.over, evicted |-> TRUE,
             freed |-> @.freed + HistoryRecordBytes(Head(st[c][w].history))]]
  /\ UNCHANGED <<file, readable, locks, loaded, pc, live, req, wf, thread, done, outcome, env>>

(* Enough is estimated to be free, or nothing is left: Save again.         *)
SaveAgain(c) ==
  /\ pc[c] = "evicting"
  /\ pressure[c].evicted
  /\ \/ pressure[c].freed >= pressure[c].over
     \/ live[c] /\ Candidates(st[c]) = {}
  /\ pressure' = [pressure EXCEPT ![c] = NoPressure]
  /\ Goto(c, "writing")
  /\ UNCHANGED <<file, readable, locks, loaded, live, req, wf, thread, done, st, outcome, env>>

EvictionFails(c) ==
  /\ Evicting(c)
  /\ ~ live[c] \/ (~ pressure[c].evicted /\ Candidates(st[c]) = {})
  /\ pressure' = [pressure EXCEPT ![c] = NoPressure]
  /\ Return(c, "unsaved", "stateUnlock")
  /\ UNCHANGED <<file, readable, locks, loaded, live, req, wf, thread, done, st, env>>

(* The directory is synced after the rename; failing that, Save reports an *)
(* error for a file that is already in place.                              *)
SyncDir(c) ==
  /\ pc[c] = "syncDir"
  /\ \E result \in {"review", "unsaved"} : Return(c, result, "stateUnlock")
  /\ UNCHANGED <<file, readable, locks, loaded, live, callData, env>>

-----------------------------------------------------------------------------
(* Leaving: the deferred calls, innermost first.                           *)

ReleaseStateLock(c) ==
  /\ pc[c] = "stateUnlock"
  /\ slock' = Free
  /\ st' = [st EXCEPT ![c] = NoState]
  /\ overtaken' = FALSE
  /\ Goto(c, "close")
  /\ UNCHANGED <<file, readable, wlock, loaded, live, req, wf, thread, done, pressure, outcome,
                 orphans, crashes, edits>>

ChildLeftRunning(c) == UNCHANGED thread

(* Close returns when the child has exited, and with it the writer.        *)
ChildExits(c) == thread' = [thread EXCEPT ![c] = NoThread]

CloseReviewer(c) ==
  /\ pc[c] = "close"
  /\ ChildExits(c)
  /\ Goto(c, "unlock")
  /\ UNCHANGED <<file, readable, locks, loaded, live, req, wf, done, st, pressure, outcome, env>>

ReleaseWorkflowLock(c) ==
  /\ pc[c] = "unlock"
  /\ wlock' = [wlock EXCEPT ![req[c].workflow] = Free]
  /\ Forget({c})
  /\ UNCHANGED <<file, readable, slock, loaded, live, thread, st, pressure, env>>

-----------------------------------------------------------------------------
(* The environment.                                                        *)

Cancel(c) ==
  /\ pc[c] # "idle"
  /\ live[c]
  /\ live' = [live EXCEPT ![c] = FALSE]
  /\ UNCHANGED <<file, readable, locks, loaded, pc, callData, outcome, env>>

(* A server dies: the operating system releases its locks, its memory is   *)
(* gone, and its children live until they notice.                          *)
Crash(s) ==
  LET dead == {c \in Calls : ServerOf[c] = s}
      Holder(h) == IF h \in dead THEN Free ELSE h
  IN  /\ crashes < MaxCrashes
      /\ crashes' = crashes + 1
      /\ wlock' = [w \in Workflows |-> Holder(wlock[w])]
      /\ slock' = Holder(slock)
      /\ orphans' = orphans \cup ({thread[c] : c \in dead} \ {NoThread})
      /\ loaded' = [loaded EXCEPT ![s] = FALSE]
      /\ live' = [c \in Calls |-> c \in dead \/ live[c]]
      /\ thread' = [c \in Calls |-> IF c \in dead THEN NoThread ELSE thread[c]]
      /\ st' = [a \in Writers |-> IF a \in dead THEN NoState ELSE st[a]]
      /\ pressure' = [c \in Calls |-> IF c \in dead THEN NoPressure ELSE pressure[c]]
      /\ Forget(dead)
      /\ UNCHANGED <<file, readable, edits, overtaken>>

OrphanExits(t) ==
  /\ t \in orphans
  /\ orphans' = orphans \ {t}
  /\ UNCHANGED <<file, readable, locks, loaded, pc, live, callData, outcome, crashes, edits,
                 overtaken>>

(* An older Counterpoint knows one lock, the state lock, and holds it for  *)
(* its whole review, from the load of the file to its save.                *)
OlderBegins ==
  /\ edits < MaxEdits
  /\ slock = Free
  /\ slock' = Older
  /\ st' = [st EXCEPT ![Older] = IF Decodes THEN file ELSE NoState]
  /\ edits' = edits + 1
  /\ overtaken' = FALSE
  /\ UNCHANGED <<file, readable, wlock, loaded, pc, live, req, wf, thread, done, pressure,
                 outcome, orphans, crashes>>

OlderMayReview(w, t) ==
  LET before == st[Older][w]
  IN  IF before = NoWorkflow
      THEN t \notin UsedThreads
      ELSE t = before.thread /\ WriterFree(t) /\ ~ Unusable(before)

OlderEnds ==
  /\ slock = Older
  /\ slock' = Free
  /\ st' = [st EXCEPT ![Older] = NoState]
  /\ overtaken' = FALSE
  /\ \/ UNCHANGED <<file, readable>>
     \/ /\ st[Older] # NoState
        /\ \E w \in Workflows, t \in Threads, q \in Requests, n \in ReviewSizes :
             /\ OlderMayReview(w, t)
             /\ file' = [st[Older] EXCEPT ![w] =
                  Superseding(@, @, FinishedRound(@, t, q, n))]
        /\ readable' = TRUE
  /\ UNCHANGED <<wlock, loaded, pc, live, req, wf, thread, done, pressure, outcome, orphans,
                 crashes, edits>>

(* The human removes an entry, as the hint for a lost thread tells them,   *)
(* breaks the file, or mends it: at any moment, for an editor takes no     *)
(* lock.                                                                   *)
HandEdit ==
  /\ edits < MaxEdits
  /\ edits' = edits + 1
  /\ overtaken' = (slock # Free)
  /\ \/ /\ \E w \in Present(file) : file' = [file EXCEPT ![w] = NoWorkflow]
        /\ UNCHANGED readable
     \/ /\ readable' = ~ readable
        /\ UNCHANGED file
  /\ UNCHANGED <<locks, loaded, pc, live, callData, outcome, orphans, crashes>>

-----------------------------------------------------------------------------

CallStep(c) ==
  \/ AcquireWorkflowLock(c) \/ WorkflowLockRefused(c)
  \/ AcquireStateLock(c) \/ StateLockRefused(c) \/ LoadWorkflow(c)
  \/ ReplayReview(c) \/ ValidateTarget(c) \/ NewReviewer(c) \/ SetupFails(c)
  \/ ResumeThread(c) \/ StartThread(c) \/ ReviewFails(c) \/ Review(c)
  \/ SaveCompleted(c) \/ WriteAtomic(c) \/ WriteFails(c) \/ SyncDir(c)
  \/ SaveTooLarge(c) \/ EvictRecord(c) \/ SaveAgain(c) \/ EvictionFails(c)
  \/ ReleaseStateLock(c) \/ CloseReviewer(c) \/ ReleaseWorkflowLock(c)

Environment ==
  \/ \E c \in Calls : Cancel(c)
  \/ \E s \in Servers : Crash(s)
  \/ \E t \in Threads : OrphanExits(t)
  \/ OlderBegins \/ OlderEnds \/ HandEdit

Next ==
  \/ \E c \in Calls : Submit(c) \/ CallStep(c)
  \/ Environment

Spec == Init /\ [][Next]_vars

(* A call that was submitted keeps taking steps: every wait in it is       *)
(* bounded, by the lock waits, the setup and review timeouts, and Close.   *)
FairSpec == Spec /\ \A c \in Calls : WF_vars(CallStep(c))

-----------------------------------------------------------------------------
(* Properties.                                                             *)

TypeOK ==
  /\ file \in [Workflows -> Workflow \cup {NoWorkflow}]
  /\ readable \in BOOLEAN
  /\ wlock \in [Workflows -> Calls \cup {Free}]
  /\ slock \in Calls \cup {Free, Older}
  /\ loaded \in [Servers -> BOOLEAN]
  /\ pc \in [Calls -> Steps]
  /\ req \in [Calls -> [workflow : Workflows, hash : Requests] \cup {NoRequest}]
  /\ live \in [Calls -> BOOLEAN]
  /\ wf \in [Calls -> Workflow \cup {NoWorkflow}]
  /\ thread \in [Calls -> Threads \cup {NoThread}]
  /\ done \in [Calls -> Workflow \cup {NoWorkflow}]
  /\ st \in [Writers -> [Workflows -> Workflow \cup {NoWorkflow}] \cup {NoState}]
  /\ pressure \in [Calls -> [over : Nat, freed : Nat, evicted : BOOLEAN]]
  /\ outcome \in [Calls -> Outcomes]
  /\ orphans \subseteq Threads
  /\ crashes \in Nat
  /\ edits \in Nat
  /\ overtaken \in BOOLEAN

SameRound(v, w) ==
  /\ (v = NoWorkflow) = (w = NoWorkflow)
  /\ v # NoWorkflow => SameReplayFields(v, w)

(* "The record copied under the state lock is still current": from the     *)
(* moment a call has copied its workflow's record until it replaces it, no *)
(* other call changes what that record replays, though the state lock is   *)
(* released in between for the whole review (review.go, loadWorkflow).     *)
CopyCurrent ==
  edits = 0 =>
    \A c \in Calls :
      pc[c] \in {"target", "spawn", "thread", "turn", "save", "saving", "writing", "evicting"}
        => SameRound(file[req[c].workflow], wf[c])

(* A call that answers with a new review has recorded it: until it gives   *)
(* up the workflow lock, the file replays exactly that round.              *)
AnswerRecorded ==
  edits = 0 =>
    \A c \in Calls :
      outcome[c] = "review" => SameRound(file[req[c].workflow], done[c])

(* Counterpoint never writes a record that its own next load would refuse: *)
(* through any sequence of rounds, retention and evictions by any review,  *)
(* every ledger stays a contiguous run ending just before its round.       *)
Valid(w) == w # NoWorkflow => ~ Incomplete(w) /\ ~ InvalidHistory(w)

SavedRecordsValid == \A w \in Workflows : Valid(file[w])

(* The child has exited before the workflow lock is released, so a round   *)
(* never finds its thread's writer held by the child of a running call.    *)
(* Only the child that a crashed server left behind may still hold it: the *)
(* server's locks are gone before its children are, and the round that     *)
(* comes between fails on the writer.                                      *)
WriterHandedOver ==
  \A c \in Calls :
    pc[c] = "thread" /\ Known(c) =>
      \/ WriterFree(wf[c].thread)
      \/ crashes > 0 /\ wf[c].thread \in orphans /\ \A d \in Calls : thread[d] # wf[c].thread

(* The loaded flag belongs to the server's one store and every Load clears *)
(* it; no Load of another call comes between a call's own Load and Save.   *)
StoreLoaded ==
  \A c \in Calls : pc[c] \in {"writing", "evicting"} => loaded[ServerOf[c]]

(* A record is superseded only by the next round of its own workflow, made *)
(* by a call that started from that very record; any other change a review *)
(* makes drops the oldest part of a ledger.  Others' records are kept, and *)
(* so is what a writer that bypassed the workflow lock wrote before the    *)
(* Load that the save is made from.  An editor takes no lock at all, and   *)
(* what it saves between that Load and the rename is lost: an entry the    *)
(* human removed just then comes back.  Nothing else is ever brought back. *)
DropsOldest(old, new) ==
  \E k \in 0 .. Len(old.history) :
    new = [old EXCEPT !.history = DropOldest(@, k)]

Renames(c) == pc[c] = "writing" /\ pc'[c] = "syncDir"

SupersededBy(c, w) ==
  /\ Renames(c)
  /\ req[c].workflow = w
  /\ SameRound(file[w], wf[c])
  /\ SameReplayFields(file'[w], done[c])

RecordsOnlySuperseded ==
  [][\A w \in Workflows :
       \/ file'[w] = file[w]
       \/ slock = Older \/ edits' # edits
       \/ \E c \in Calls : SupersededBy(c, w)
       \/ file[w] = NoWorkflow /\ overtaken /\ \E c \in Calls : Renames(c)
       \/ file[w] # NoWorkflow /\ file'[w] # NoWorkflow /\ DropsOldest(file[w], file'[w])
    ]_vars

(* A ledger record that another review evicted is not resurrected: a new   *)
(* ledger holds records of the old one and the superseded round, no other. *)
EvictedStaysEvicted ==
  [][\A w \in Workflows :
       file[w] # NoWorkflow /\ file'[w] # NoWorkflow =>
         \A i \in DOMAIN file'[w].history :
           \/ file'[w].history[i].round = file[w].round
           \/ \E j \in DOMAIN file[w].history : file[w].history[j] = file'[w].history[i]
    ]_vars

(* "A record is never evicted when the file would already fit": the loop   *)
(* works from an estimate, and each single eviction was needed.            *)
EvictedOnlyWhenTooLarge ==
  [][\A c \in Calls :
       pc[c] = "evicting" /\ st'[c] # st[c] /\ st'[c] # NoState => TooLarge(st[c])
    ]_vars

(* History never leaves a completed review unsaved: a call still live that *)
(* gives up on the size has evicted every ledger there is.                 *)
HistoryNeverBlocksSave ==
  [][\A c \in Calls :
       /\ pc[c] = "evicting" /\ pc'[c] = "stateUnlock" /\ live[c]
       => /\ \A w \in Workflows : st[c][w] # NoWorkflow => st[c][w].history = << >>
          /\ TooLarge(st[c])
    ]_vars

(* A file that does not decode is mended by its owner and replaced by no   *)
(* review, unless it was broken after the Load that a save is made from:   *)
(* the rename that follows does not look at the file again.                *)
BrokenFileKept ==
  [][~ readable /\ ~ overtaken => UNCHANGED <<file, readable>> \/ edits' # edits]_vars

(* Every call ends: none waits for ever on a lock, and none keeps one.     *)
CallsEnd == \A c \in Calls : pc[c] # "idle" ~> pc[c] = "idle"

-----------------------------------------------------------------------------
(* The service implements ReviewRegistry: a new round takes effect when    *)
(* the rename replaces the file, a replay when the request has validated   *)
(* to the stored hash.                                                     *)

Replayed(w) ==
  [thread |-> w.thread, hash |-> w.hash, round |-> w.round, review |-> w.review]

Latest ==
  [w \in Workflows |-> IF file[w] = NoWorkflow THEN NoWorkflow ELSE Replayed(file[w])]

CallOf(c) ==
  IF pc[c] = "idle" THEN [phase |-> "idle"]
  ELSE IF pc[c] = "syncDir" \/ outcome[c] = "review"
       THEN [phase |-> "review", result |-> Replayed(done[c])]
  ELSE IF outcome[c] = "replay" THEN [phase |-> "replay", result |-> Replayed(wf[c])]
  ELSE IF outcome[c] \in {"failed", "unsaved"} THEN [phase |-> "failed"]
  ELSE [phase |-> "pending", workflow |-> req[c].workflow, hash |-> req[c].hash]

CallsOf == [c \in Calls |-> CallOf(c)]

Registry == INSTANCE ReviewRegistry WITH
  latest <- Latest,
  call <- CallsOf

RegistrySpec == Registry!Spec
=============================================================================
