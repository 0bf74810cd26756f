---------------------------- MODULE ScratchProofs -----------------------------
(***************************************************************************)
(* Proofs about Scratch, for any number of reviews and workflows, whatever *)
(* the scratch root holds at first.                                        *)
(***************************************************************************)
EXTENDS Scratch, TLAPS

-----------------------------------------------------------------------------
(* Types.                                                                  *)

Typed ==
  /\ clock \in 0 .. MaxClock
  /\ dir \in [Workflows -> Dirs]
  /\ held \in [Workflows -> Reviews \cup {Nobody}]
  /\ rv \in [Reviews -> Frames]

(* Where a review is says which workflows it is about.                     *)
Sane(f) ==
  /\ f.pc = "idle" <=> f.at = Nobody
  /\ f.at \notin f.todo
  /\ f.pc = "idle" => f.todo = {}
  /\ f.pc \in {"try"} \cup Sweeping => f.entry # Nobody /\ f.entry # f.at

Framed == \A r \in Reviews : Sane(rv[r])

(* What a step of one review does to its frame.                            *)
Becomes(r, f) == rv' = [rv EXCEPT ![r] = f]

(* A step changes one review's frame.                                      *)
LEMMA BecomesType ==
  ASSUME rv \in [Reviews -> Frames], NEW r \in Reviews, NEW f \in Frames, Becomes(r, f)
  PROVE  /\ rv' \in [Reviews -> Frames]
         /\ rv'[r] = f
         /\ \A q \in Reviews \ {r} : rv'[q] = rv[q]
BY DEF Becomes

(* A step and what is left of its list.                                    *)
LEMMA GotoType ==
  ASSUME rv \in [Reviews -> Frames], NEW r \in Reviews, NEW step \in Steps,
         NEW left \in SUBSET Items, Goto(r, step, left)
  PROVE  /\ Becomes(r, [rv[r] EXCEPT !.pc = step, !.left = left])
         /\ [rv[r] EXCEPT !.pc = step, !.left = left] \in Frames
<1>1. rv[r] \in Frames
  OBVIOUS
<1>2. QED
  BY <1>1 DEF Goto, Becomes, Frames

(* What a step does to its directory.                                      *)
LEMMA DirType ==
  ASSUME dir \in [Workflows -> Dirs], NEW w \in Workflows, NEW d \in Dirs, dir' = [dir EXCEPT ![w] = d]
  PROVE  /\ dir' \in [Workflows -> Dirs]
         /\ dir'[w] = d
         /\ \A v \in Workflows \ {w} : dir'[v] = dir[v]
OBVIOUS

(* A review that does nothing has a frame.                                 *)
LEMMA IdleType == Idle \in Frames
BY ScratchAssumption DEF Idle, Frames, Steps, Items

-----------------------------------------------------------------------------
(* The invariant.                                                          *)

(* The workflow lock lets one review of a workflow in.                     *)
Apart == \A q, r \in Reviews : rv[q].at = rv[r].at /\ rv[r].at # Nobody => q = r

Locks(f, w) ==
  \/ f.at = w /\ f.pc \in Holding
  \/ f.entry = w /\ f.pc \in Sweeping

HoldsLock(r, w) == Locks(rv[r], w)

(* A lock is held by the review that is in the part of its run it is for.  *)
Locked == \A r \in Reviews, w \in Workflows : held[w] = r <=> HoldsLock(r, w)

(* What a review has made in its own directory d is there.                 *)
KeptIn(f, d) ==
  /\ f.pc # "idle" => d.owned
  /\ f.pc \in Holding \ {"stamp", "close"} => d.used # Never
  /\ f.pc = "make" =>
       /\ f.left \subseteq PerRound \cup {"cache"}
       /\ PerRound \ f.left \subseteq d.items
       /\ "cache" \in f.left \/ d.cache # Never
  /\ f.pc = "use" => PerRound \subseteq d.items /\ d.cache # Never

(* What it sweeps is Counterpoint's, and each item there is still to be    *)
(* tried or could not be moved.                                            *)
SweptIn(f, d) ==
  /\ f.pc \in {"try"} \cup Sweeping => d.owned
  /\ f.pc = "move" => d.items \subseteq f.left \cup f.stuck

KeptBy(r) == KeptIn(rv[r], dir[rv[r].at])
SweptBy(r) == SweptIn(rv[r], dir[rv[r].entry]) /\ rv[r].now <= clock

Kept == \A r \in Reviews : KeptBy(r) /\ SweptBy(r)

IInv == Typed /\ Framed /\ Apart /\ Locked /\ Kept

(* A review at work on a workflow has it.                                  *)
LEMMA Whereabouts ==
  ASSUME IInv, NEW r \in Reviews
  PROVE  /\ rv[r] \in Frames
         /\ rv[r].pc # "idle" => rv[r].at \in Workflows /\ dir[rv[r].at] \in Dirs
         /\ rv[r].pc \in {"try"} \cup Sweeping =>
              rv[r].entry \in Workflows /\ dir[rv[r].entry] \in Dirs /\ rv[r].entry # rv[r].at
BY DEF IInv, Typed, Framed, Sane, Frames

(* A step on a directory whose lock the review holds takes nothing from    *)
(* the others.                                                             *)
LEMMA OthersKept ==
  ASSUME IInv, NEW r \in Reviews, NEW w \in Workflows, held[w] = r,
         \A v \in Workflows \ {w} : dir'[v] = dir[v],
         dir[w].owned => dir'[w].owned,
         \A q \in Reviews \ {r} : rv'[q] = rv[q],
         clock' = clock
  PROVE  \A q \in Reviews \ {r} : KeptBy(q)' /\ SweptBy(q)'
<1> TAKE q \in Reviews \ {r}
<1>1. /\ rv'[q] = rv[q] /\ rv[q] \in Frames /\ rv[q].now <= clock
      /\ KeptIn(rv[q], dir[rv[q].at]) /\ SweptIn(rv[q], dir[rv[q].entry])
  BY Whereabouts DEF IInv, Kept, KeptBy, SweptBy
<1>2. ~ HoldsLock(q, w)
  BY ScratchAssumption DEF IInv, Locked
<1>3. KeptIn(rv[q], dir'[rv[q].at])
  <2>1. CASE rv[q].pc = "idle"
    BY <1>1, <2>1 DEF KeptIn, Holding
  <2>2. CASE rv[q].pc = "lock"
    BY <1>1, <2>2, Whereabouts DEF KeptIn, Holding
  <2>3. CASE rv[q].pc \in Holding
    <3>1. dir'[rv[q].at] = dir[rv[q].at]
      BY <1>2, <2>3, Whereabouts DEF HoldsLock, Locks, Holding
    <3>2. QED
      BY <1>1, <3>1
  <2>4. QED
    BY <1>1, <2>1, <2>2, <2>3 DEF Frames, Steps, Holding
<1>4. SweptIn(rv[q], dir'[rv[q].entry])
  <2>1. CASE rv[q].pc \notin {"try"} \cup Sweeping
    BY <1>1, <2>1 DEF SweptIn, Sweeping
  <2>2. CASE rv[q].pc = "try"
    BY <1>1, <2>2, Whereabouts DEF SweptIn, Sweeping
  <2>3. CASE rv[q].pc \in Sweeping
    <3>1. dir'[rv[q].entry] = dir[rv[q].entry]
      BY <1>2, <2>3, Whereabouts DEF HoldsLock, Locks
    <3>2. QED
      BY <1>1, <3>1
  <2>4. QED
    BY <2>1, <2>2, <2>3
<1>5. QED
  BY <1>1, <1>3, <1>4 DEF KeptBy, SweptBy

(* A step that leaves the directories alone takes nothing from the others. *)
LEMMA OthersLeft ==
  ASSUME IInv, NEW r \in Reviews, dir' = dir, \A q \in Reviews \ {r} : rv'[q] = rv[q], clock' = clock
  PROVE  \A q \in Reviews \ {r} : KeptBy(q)' /\ SweptBy(q)'
BY DEF IInv, Kept, KeptBy, SweptBy

(* What a step of one review must establish.                               *)
LEMMA StepKeeps ==
  ASSUME IInv, NEW r \in Reviews, NEW f \in Frames, Becomes(r, f), Sane(f),
         f.at \in {rv[r].at, Nobody},
         dir' \in [Workflows -> Dirs], clock' = clock,
         held' \in [Workflows -> Reviews \cup {Nobody}],
         \A w \in Workflows : held'[w] = r <=> Locks(f, w),
         \A w \in Workflows, q \in Reviews \ {r} : held'[w] = q <=> held[w] = q,
         \A q \in Reviews \ {r} : KeptBy(q)' /\ SweptBy(q)',
         KeptIn(f, dir'[f.at]), SweptIn(f, dir'[f.entry]), f.now <= clock
  PROVE  IInv'
<1>1. /\ rv' \in [Reviews -> Frames] /\ rv'[r] = f
      /\ \A q \in Reviews \ {r} : rv'[q] = rv[q]
  BY BecomesType DEF IInv, Typed
<1>2. Typed'
  BY <1>1 DEF IInv, Typed
<1>3. Framed'
  BY <1>1 DEF IInv, Framed
<1>4. Apart'
  BY <1>1 DEF IInv, Apart
<1>5. Locked'
  BY <1>1 DEF IInv, Locked, HoldsLock
<1>6. Kept'
  BY <1>1 DEF Kept, KeptBy, SweptBy
<1>7. QED
  BY <1>2, <1>3, <1>4, <1>5, <1>6 DEF IInv

(* A step that takes and gives back no lock.                               *)
LEMMA LocksLeft ==
  ASSUME IInv, NEW r \in Reviews, NEW f, held' = held, f.at = rv[r].at, f.entry = rv[r].entry,
         f.pc \in Holding <=> rv[r].pc \in Holding,
         f.pc \in Sweeping <=> rv[r].pc \in Sweeping
  PROVE  /\ held' \in [Workflows -> Reviews \cup {Nobody}]
         /\ \A w \in Workflows : held'[w] = r <=> Locks(f, w)
         /\ \A w \in Workflows, q \in Reviews \ {r} : held'[w] = q <=> held[w] = q
BY DEF IInv, Typed, Locked, HoldsLock, Locks

(* A step at the end of which the review is idle and has no lock.          *)
LEMMA EndKeeps ==
  ASSUME IInv, NEW r \in Reviews, Becomes(r, Idle), UNCHANGED <<dir, clock>>,
         held' \in [Workflows -> Reviews \cup {Nobody}],
         \A w \in Workflows : held'[w] # r,
         \A w \in Workflows, q \in Reviews \ {r} : held'[w] = q <=> held[w] = q
  PROVE  IInv'
<1>1. /\ rv'[r] = Idle
      /\ \A q \in Reviews \ {r} : rv'[q] = rv[q]
  BY IdleType, BecomesType DEF IInv, Typed
<1>2. KeptIn(Idle, dir'[Idle.at]) /\ SweptIn(Idle, dir'[Idle.entry]) /\ Idle.now <= clock
  BY ScratchAssumption DEF KeptIn, SweptIn, Idle, Holding, Sweeping, IInv, Typed
<1>3. \A w \in Workflows : ~ Locks(Idle, w)
  BY DEF Locks, Idle, Holding, Sweeping
<1>4. Sane(Idle) /\ Idle.at = Nobody
  BY DEF Sane, Idle, Sweeping
<1>5. \A q \in Reviews \ {r} : KeptBy(q)' /\ SweptBy(q)'
  BY <1>1, OthersLeft
<1>6. dir' \in [Workflows -> Dirs]
  BY DEF IInv, Typed
<1>7. QED
  BY <1>1, <1>2, <1>3, <1>4, <1>5, <1>6, IdleType, StepKeeps

(* A step that changes nothing but the review's frame, and no lock.        *)
LEMMA FrameKeeps ==
  ASSUME IInv, NEW r \in Reviews, NEW f \in Frames, Becomes(r, f), Sane(f),
         f.at = rv[r].at, f.entry = rv[r].entry, f.now = rv[r].now,
         f.pc \in Holding <=> rv[r].pc \in Holding,
         f.pc \in Sweeping <=> rv[r].pc \in Sweeping,
         UNCHANGED <<clock, dir, held>>,
         KeptIn(f, dir[f.at]), SweptIn(f, dir[f.entry])
  PROVE  IInv'
<1>1. \A q \in Reviews \ {r} : KeptBy(q)' /\ SweptBy(q)'
  BY BecomesType, OthersLeft DEF IInv, Typed
<1>2. f.now <= clock /\ dir' \in [Workflows -> Dirs]
  BY DEF IInv, Typed, Kept, SweptBy
<1>3. QED
  BY <1>1, <1>2, LocksLeft, StepKeeps

(* A step that changes the review's frame and a directory it has locked.   *)
LEMMA DirKeeps ==
  ASSUME IInv, NEW r \in Reviews, NEW f \in Frames, Becomes(r, f), Sane(f),
         f.at = rv[r].at, f.entry = rv[r].entry, f.now \in {rv[r].now, clock},
         f.pc \in Holding <=> rv[r].pc \in Holding,
         f.pc \in Sweeping <=> rv[r].pc \in Sweeping,
         NEW w \in Workflows, HoldsLock(r, w), NEW d \in Dirs, dir' = [dir EXCEPT ![w] = d],
         d.owned = dir[w].owned,
         UNCHANGED <<clock, held>>,
         KeptIn(f, dir'[f.at]), SweptIn(f, dir'[f.entry])
  PROVE  IInv'
<1>1. /\ dir' \in [Workflows -> Dirs] /\ dir'[w] = d
      /\ \A v \in Workflows \ {w} : dir'[v] = dir[v]
  BY DEF IInv, Typed
<1>2. held[w] = r
  BY DEF IInv, Locked
<1>3. \A q \in Reviews \ {r} : rv'[q] = rv[q]
  BY BecomesType DEF IInv, Typed
<1>4. \A q \in Reviews \ {r} : KeptBy(q)' /\ SweptBy(q)'
  BY <1>1, <1>2, <1>3, OthersKept
<1>5. f.now <= clock
  BY DEF IInv, Typed, Kept, SweptBy
<1>6. QED
  BY <1>1, <1>4, <1>5, LocksLeft, StepKeeps

(* Going from one place of the run to another ...                          *)
At(r, step, left) == [rv[r] EXCEPT !.pc = step, !.left = left]

(* A step that stays in its directory keeps what the frame knows of it.    *)
LEMMA AtFields ==
  ASSUME IInv, NEW r \in Reviews, NEW step \in Steps, NEW left \in SUBSET Items, Goto(r, step, left),
         rv[r].pc # "idle", step \notin {"idle", "try"},
         step \in Sweeping => rv[r].pc \in Sweeping
  PROVE  LET f == At(r, step, left) IN
         /\ f \in Frames /\ Becomes(r, f) /\ Sane(f)
         /\ f.pc = step /\ f.left = left /\ f.at = rv[r].at /\ f.entry = rv[r].entry
         /\ f.now = rv[r].now /\ f.todo = rv[r].todo /\ f.stuck = rv[r].stuck
<1> DEFINE f == At(r, step, left)
<1>1. f \in Frames /\ Becomes(r, f)
  BY GotoType DEF IInv, Typed, At
<1>2. /\ f.pc = step /\ f.left = left /\ f.at = rv[r].at /\ f.entry = rv[r].entry
      /\ f.now = rv[r].now /\ f.todo = rv[r].todo /\ f.stuck = rv[r].stuck
  BY Whereabouts DEF At, Frames
<1>3. Sane(f)
  BY <1>2 DEF IInv, Framed, Sane
<1>4. QED
  BY <1>1, <1>2, <1>3

(* ... with nothing else changed ...                                       *)
LEMMA GotoKeeps ==
  ASSUME IInv, NEW r \in Reviews, NEW step \in Steps, NEW left \in SUBSET Items, Goto(r, step, left),
         rv[r].pc # "idle", step \notin {"idle", "try"},
         step \in Holding <=> rv[r].pc \in Holding,
         step \in Sweeping <=> rv[r].pc \in Sweeping,
         UNCHANGED <<clock, dir, held>>,
         KeptIn(At(r, step, left), dir[rv[r].at]), SweptIn(At(r, step, left), dir[rv[r].entry])
  PROVE  IInv'
<1> DEFINE f == At(r, step, left)
<1>1. /\ f \in Frames /\ Becomes(r, f) /\ Sane(f)
      /\ f.pc = step /\ f.at = rv[r].at /\ f.entry = rv[r].entry /\ f.now = rv[r].now
  BY AtFields
<1> HIDE DEF f
<1>2. KeptIn(f, dir[f.at]) /\ SweptIn(f, dir[f.entry])
  BY <1>1 DEF f
<1>3. QED
  BY <1>1, <1>2, FrameKeeps

(* ... or with a change in a directory the review has locked.              *)
LEMMA GotoDirKeeps ==
  ASSUME IInv, NEW r \in Reviews, NEW step \in Steps, NEW left \in SUBSET Items, Goto(r, step, left),
         rv[r].pc # "idle", step \notin {"idle", "try"},
         step \in Holding <=> rv[r].pc \in Holding,
         step \in Sweeping <=> rv[r].pc \in Sweeping,
         NEW w \in Workflows, HoldsLock(r, w), NEW d \in Dirs, dir' = [dir EXCEPT ![w] = d],
         d.owned = dir[w].owned,
         UNCHANGED <<clock, held>>,
         KeptIn(At(r, step, left), dir'[rv[r].at]), SweptIn(At(r, step, left), dir'[rv[r].entry])
  PROVE  IInv'
<1> DEFINE f == At(r, step, left)
<1>1. /\ f \in Frames /\ Becomes(r, f) /\ Sane(f)
      /\ f.pc = step /\ f.at = rv[r].at /\ f.entry = rv[r].entry /\ f.now = rv[r].now
  BY AtFields
<1> HIDE DEF f
<1>2. KeptIn(f, dir'[f.at]) /\ SweptIn(f, dir'[f.entry])
  BY <1>1 DEF f
<1>3. QED
  BY <1>1, <1>2, DirKeeps

-----------------------------------------------------------------------------
(* The steps.                                                              *)

(* A review that is refused its lock holds none.                           *)
LEMMA LockRefusedStep == ASSUME IInv, NEW r \in Reviews, LockRefused(r) PROVE IInv'
<1>1. Becomes(r, Idle) /\ UNCHANGED <<clock, dir, held>> /\ rv[r].pc = "lock"
  BY DEF LockRefused, Becomes
<1>2. \A w \in Workflows : held[w] # r
  BY <1>1 DEF IInv, Locked, HoldsLock, Locks, Holding, Sweeping
<1>3. QED
  BY <1>1, <1>2, EndKeeps DEF IInv, Typed

(* Giving back the lock of its own directory is the end of a run.          *)
LEMMA ReleaseKeeps ==
  ASSUME IInv, NEW r \in Reviews, rv[r].pc \in Holding \ Sweeping, Becomes(r, Idle),
         Release(rv[r].at), UNCHANGED <<clock, dir>>
  PROVE  IInv'
<1>1. held \in [Workflows -> Reviews \cup {Nobody}] /\ rv[r].at \in Workflows
  BY Whereabouts DEF IInv, Typed, Holding
<1>2. \A w \in Workflows : held[w] = r <=> w = rv[r].at
  BY <1>1 DEF IInv, Locked, HoldsLock, Locks
<1>3. /\ held' \in [Workflows -> Reviews \cup {Nobody}]
      /\ \A w \in Workflows : held'[w] = IF w = rv[r].at THEN Nobody ELSE held[w]
  BY <1>1 DEF Release
<1>4. /\ \A w \in Workflows : held'[w] # r
      /\ \A w \in Workflows, q \in Reviews \ {r} : held'[w] = q <=> held[w] = q
  BY <1>2, <1>3, ScratchAssumption
<1>5. QED
  BY <1>3, <1>4, EndKeeps

(* A review whose stamp fails gives its lock back.                         *)
LEMMA StampFailsStep == ASSUME IInv, NEW r \in Reviews, StampFails(r) PROVE IInv'
BY ReleaseKeeps DEF StampFails, Becomes, Holding, Sweeping

(* The context ends between two steps, and nothing else does.              *)
LEMMA ContextEndsStep == ASSUME IInv, NEW r \in Reviews, ContextEnds(r) PROVE IInv'
<1>1. rv[r] \in Frames /\ rv[r].pc # "idle" /\ KeptIn(rv[r], dir[rv[r].at]) /\ SweptIn(rv[r], dir[rv[r].entry])
  BY Whereabouts DEF ContextEnds, IInv, Kept, KeptBy, SweptBy
<1> DEFINE f == [rv[r] EXCEPT !.live = FALSE]
<1>2. Becomes(r, f) /\ UNCHANGED <<clock, dir, held>>
  BY <1>1 DEF ContextEnds, Becomes
<1>3. f \in Frames
  BY <1>1 DEF Frames
<1>4. /\ f.pc = rv[r].pc /\ f.at = rv[r].at /\ f.entry = rv[r].entry /\ f.now = rv[r].now
      /\ f.left = rv[r].left /\ f.todo = rv[r].todo /\ f.stuck = rv[r].stuck
  BY <1>1 DEF Frames
<1> HIDE DEF f
<1>5. Sane(f)
  BY <1>4 DEF IInv, Framed, Sane
<1>6. KeptIn(f, dir[f.at]) /\ SweptIn(f, dir[f.entry])
  BY <1>1, <1>4 DEF KeptIn, SweptIn
<1>7. QED
  BY <1>2, <1>3, <1>4, <1>5, <1>6, FrameKeeps

(* The reviewer is done; the lock is kept for Close.                       *)
LEMMA ReviewEndsStep == ASSUME IInv, NEW r \in Reviews, ReviewEnds(r) PROVE IInv'
<1>1. rv[r] \in Frames /\ rv[r].pc = "use" /\ KeptIn(rv[r], dir[rv[r].at]) /\ SweptIn(rv[r], dir[rv[r].entry])
  BY Whereabouts DEF ReviewEnds, IInv, Kept, KeptBy, SweptBy
<1>2. Goto(r, "close", dir[rv[r].at].items) /\ UNCHANGED <<clock, dir, held>>
  BY DEF ReviewEnds, Closing
<1>3. dir[rv[r].at].items \in SUBSET Items
  BY <1>1, Whereabouts DEF Dirs, Items
<1>4. KeptIn(At(r, "close", dir[rv[r].at].items), dir[rv[r].at]) /\ SweptIn(At(r, "close", dir[rv[r].at].items), dir[rv[r].entry])
  BY <1>1 DEF At, Frames, KeptIn, SweptIn, Holding, Sweeping
<1>5. QED
  BY <1>1, <1>2, <1>3, <1>4, GotoKeeps DEF Steps, Holding, Sweeping

(* A failure in Prepare leads to Close, with the lock.                     *)
LEMMA PrepareFailsStep == ASSUME IInv, NEW r \in Reviews, PrepareFails(r) PROVE IInv'
<1>1. rv[r] \in Frames /\ rv[r].pc \in {"clean", "make"} /\ KeptIn(rv[r], dir[rv[r].at]) /\ SweptIn(rv[r], dir[rv[r].entry])
  BY Whereabouts DEF PrepareFails, IInv, Kept, KeptBy, SweptBy
<1>2. Goto(r, "close", dir[rv[r].at].items) /\ UNCHANGED <<clock, dir, held>>
  BY DEF PrepareFails, Closing
<1>3. dir[rv[r].at].items \in SUBSET Items
  BY <1>1, Whereabouts DEF Dirs, Items
<1>4. KeptIn(At(r, "close", dir[rv[r].at].items), dir[rv[r].at]) /\ SweptIn(At(r, "close", dir[rv[r].at].items), dir[rv[r].entry])
  BY <1>1 DEF At, Frames, KeptIn, SweptIn, Holding, Sweeping
<1>5. QED
  BY <1>1, <1>2, <1>3, <1>4, GotoKeeps DEF Steps, Holding, Sweeping

(* The lock is free when it is taken.                                      *)
LEMMA AcquireLockStep == ASSUME IInv, NEW r \in Reviews, AcquireLock(r) PROVE IInv'
<1> DEFINE w == rv[r].at
           f == At(r, "stamp", {})
<1>1. rv[r] \in Frames /\ rv[r].pc = "lock" /\ KeptIn(rv[r], dir[rv[r].at]) /\ SweptIn(rv[r], dir[rv[r].entry])
  BY Whereabouts DEF AcquireLock, IInv, Kept, KeptBy, SweptBy
<1>2. w \in Workflows /\ held[w] = Nobody
  BY <1>1, Whereabouts DEF AcquireLock
<1>3. Goto(r, "stamp", {}) /\ held' = [held EXCEPT ![w] = r] /\ UNCHANGED <<clock, dir>>
  BY DEF AcquireLock
<1>4. /\ f \in Frames /\ Becomes(r, f) /\ Sane(f)
      /\ f.pc = "stamp" /\ f.at = w /\ f.entry = rv[r].entry /\ f.now = rv[r].now
  BY <1>1, <1>3, AtFields DEF Steps, Sweeping
<1> HIDE DEF f
<1>5. /\ held' \in [Workflows -> Reviews \cup {Nobody}]
      /\ \A v \in Workflows : held'[v] = IF v = w THEN r ELSE held[v]
  BY <1>2, <1>3 DEF IInv, Typed
<1>6. \A v \in Workflows : held'[v] = r <=> Locks(f, v)
  BY <1>1, <1>4, <1>5 DEF IInv, Locked, HoldsLock, Locks, Holding, Sweeping
<1>7. \A v \in Workflows, q \in Reviews \ {r} : held'[v] = q <=> held[v] = q
  BY <1>2, <1>5, ScratchAssumption
<1>8. KeptIn(f, dir'[f.at]) /\ SweptIn(f, dir'[f.entry]) /\ f.now <= clock
  BY <1>1, <1>3, <1>4 DEF IInv, Kept, SweptBy, KeptIn, SweptIn, Sweeping, Holding
<1>9. \A q \in Reviews \ {r} : KeptBy(q)' /\ SweptBy(q)'
  BY <1>3, <1>4, OthersLeft, BecomesType DEF IInv, Typed
<1>10. dir' \in [Workflows -> Dirs] /\ clock' = clock /\ f.at \in {rv[r].at, Nobody}
  BY <1>3, <1>4 DEF IInv, Typed
<1>11. QED
  BY <1>4, <1>5, <1>6, <1>7, <1>8, <1>9, <1>10, StepKeeps

(* A stamped directory is fresh at its own clock reading.                  *)
LEMMA StampStep == ASSUME IInv, NEW r \in Reviews, Stamp(r) PROVE IInv'
<1> DEFINE w == rv[r].at
           d == [dir[w] EXCEPT !.used = clock, !.last = clock]
           f == [rv[r] EXCEPT !.pc = "sweep", !.now = clock, !.todo = Workflows \ {w}]
<1>1. rv[r] \in Frames /\ rv[r].pc = "stamp" /\ KeptIn(rv[r], dir[rv[r].at]) /\ SweptIn(rv[r], dir[rv[r].entry])
  BY Whereabouts DEF Stamp, IInv, Kept, KeptBy, SweptBy
<1>2. w \in Workflows /\ dir[w] \in Dirs /\ clock \in 0 .. MaxClock
  BY <1>1, Whereabouts DEF IInv, Typed
<1>3. Becomes(r, f) /\ dir' = [dir EXCEPT ![w] = d] /\ UNCHANGED <<clock, held>>
  BY <1>1 DEF Stamp, Becomes
<1>4. d \in Dirs /\ d.used = clock /\ d.owned = dir[w].owned
  <2>1. clock \in Never .. MaxClock
    BY <1>2, ScratchAssumption DEF Never
  <2>2. QED
    BY <1>2, <2>1 DEF Dirs
<1>5. /\ f \in Frames /\ f.pc = "sweep" /\ f.now = clock /\ f.todo = Workflows \ {w}
      /\ f.at = w /\ f.entry = rv[r].entry
  BY <1>1, <1>2 DEF Frames, Steps
<1>6. dir'[w] = d
  BY <1>2, <1>3 DEF IInv, Typed
<1> HIDE DEF f, d
<1>7. Sane(f)
  BY <1>1, <1>2, <1>5 DEF IInv, Framed, Sane, Sweeping
<1>8. KeptIn(f, dir'[f.at]) /\ SweptIn(f, dir'[f.entry])
  BY <1>1, <1>2, <1>4, <1>5, <1>6 DEF KeptIn, SweptIn, Holding, Sweeping, Never
<1>9. HoldsLock(r, w)
  BY <1>1 DEF HoldsLock, Locks, Holding
<1>10. (f.pc \in Holding <=> rv[r].pc \in Holding) /\ (f.pc \in Sweeping <=> rv[r].pc \in Sweeping)
  BY <1>1, <1>5 DEF Holding, Sweeping
<1>11. QED
  BY <1>2, <1>3, <1>4, <1>5, <1>7, <1>8, <1>9, <1>10, DirKeeps

(* A verdict without the lock changes nothing.                             *)
LEMMA SweepEntryStep == ASSUME IInv, NEW r \in Reviews, SweepEntry(r) PROVE IInv'
<1>1. rv[r] \in Frames /\ rv[r].pc = "sweep" /\ KeptIn(rv[r], dir[rv[r].at]) /\ SweptIn(rv[r], dir[rv[r].entry])
  BY Whereabouts DEF SweepEntry, IInv, Kept, KeptBy, SweptBy
<1>2. PICK e \in rv[r].todo :
         rv' = [rv EXCEPT ![r].todo = @ \ {e},
                          ![r].pc = IF Judged(e, rv[r].now) THEN "try" ELSE "sweep",
                          ![r].entry = IF Judged(e, rv[r].now) THEN e ELSE Nobody]
  BY DEF SweepEntry
<1> DEFINE f == [rv[r] EXCEPT !.todo = @ \ {e},
                              !.pc = IF Judged(e, rv[r].now) THEN "try" ELSE "sweep",
                              !.entry = IF Judged(e, rv[r].now) THEN e ELSE Nobody]
<1>3. Becomes(r, f) /\ UNCHANGED <<clock, dir, held>>
  BY <1>1, <1>2 DEF SweepEntry, Becomes
<1>4. e \in Workflows /\ e # Nobody /\ e # rv[r].at
  BY <1>1, ScratchAssumption DEF Frames, IInv, Framed, Sane
<1>5. /\ f \in Frames /\ f.at = rv[r].at /\ f.now = rv[r].now /\ f.todo \subseteq rv[r].todo
      /\ \/ f.pc = "try" /\ f.entry = e /\ Judged(e, rv[r].now)
         \/ f.pc = "sweep" /\ f.entry = Nobody
  BY <1>1, <1>4 DEF Frames, Steps
<1> HIDE DEF f
<1>6. Sane(f)
  BY <1>1, <1>4, <1>5 DEF IInv, Framed, Sane, Sweeping
<1>7. KeptIn(f, dir'[f.at]) /\ SweptIn(f, dir'[f.entry]) /\ f.now <= clock
  BY <1>1, <1>3, <1>5 DEF IInv, Kept, SweptBy, KeptIn, SweptIn, Holding, Sweeping, Judged, Owned
<1>8. \A w \in Workflows : held'[w] = r <=> Locks(f, w)
  BY <1>1, <1>3, <1>5 DEF IInv, Locked, HoldsLock, Locks, Holding, Sweeping
<1>9. \A q \in Reviews \ {r} : KeptBy(q)' /\ SweptBy(q)'
  BY <1>3, <1>5, OthersLeft, BecomesType DEF IInv, Typed
<1>10. /\ dir' \in [Workflows -> Dirs] /\ held' \in [Workflows -> Reviews \cup {Nobody}]
       /\ \A w \in Workflows, q \in Reviews \ {r} : held'[w] = q <=> held[w] = q
  BY <1>3 DEF IInv, Typed
<1>11. QED
  BY <1>3, <1>5, <1>6, <1>7, <1>8, <1>9, <1>10, StepKeeps

(* The lock of an entry is tried, never waited for.                        *)
LEMMA TryEntryStep == ASSUME IInv, NEW r \in Reviews, TryEntry(r) PROVE IInv'
<1>1. rv[r] \in Frames /\ rv[r].pc = "try" /\ KeptIn(rv[r], dir[rv[r].at]) /\ SweptIn(rv[r], dir[rv[r].entry])
  BY Whereabouts DEF TryEntry, IInv, Kept, KeptBy, SweptBy
<1>2. rv[r].entry \in Workflows /\ rv[r].entry # rv[r].at
  BY <1>1, Whereabouts
<1>3. CASE held[rv[r].entry] = Nobody
  <2> DEFINE f == [rv[r] EXCEPT !.pc = "decide"]
  <2>1. Becomes(r, f) /\ held' = [held EXCEPT ![rv[r].entry] = r] /\ UNCHANGED <<clock, dir>>
    BY <1>1, <1>3 DEF TryEntry, TryLock, Becomes
  <2>2. /\ f \in Frames /\ f.pc = "decide" /\ f.at = rv[r].at /\ f.entry = rv[r].entry
        /\ f.now = rv[r].now /\ f.todo = rv[r].todo
    BY <1>1 DEF Frames, Steps
  <2> HIDE DEF f
  <2>3. /\ held' \in [Workflows -> Reviews \cup {Nobody}]
        /\ \A w \in Workflows : held'[w] = IF w = rv[r].entry THEN r ELSE held[w]
    BY <1>2, <2>1 DEF IInv, Typed
  <2>4. \A w \in Workflows : held'[w] = r <=> Locks(f, w)
    BY <1>1, <2>2, <2>3 DEF IInv, Locked, HoldsLock, Locks, Holding, Sweeping
  <2>5. \A w \in Workflows, q \in Reviews \ {r} : held'[w] = q <=> held[w] = q
    BY <1>3, <2>3, ScratchAssumption
  <2>6. Sane(f)
    BY <1>1, <2>2 DEF IInv, Framed, Sane, Sweeping
  <2>7. KeptIn(f, dir'[f.at]) /\ SweptIn(f, dir'[f.entry]) /\ f.now <= clock
    BY <1>1, <2>1, <2>2 DEF IInv, Kept, SweptBy, KeptIn, SweptIn, Holding, Sweeping
  <2>8. \A q \in Reviews \ {r} : KeptBy(q)' /\ SweptBy(q)'
    BY <2>1, <2>2, OthersLeft, BecomesType DEF IInv, Typed
  <2>9. dir' \in [Workflows -> Dirs] /\ clock' = clock /\ f.at \in {rv[r].at, Nobody}
    BY <2>1, <2>2 DEF IInv, Typed
  <2>10. QED
    BY <2>1, <2>2, <2>3, <2>4, <2>5, <2>6, <2>7, <2>8, <2>9, StepKeeps
<1>4. CASE held[rv[r].entry] # Nobody
  <2> DEFINE f == [rv[r] EXCEPT !.pc = "sweep", !.entry = Nobody]
  <2>1. Becomes(r, f) /\ UNCHANGED <<clock, dir, held>>
    BY <1>1, <1>4 DEF TryEntry, TryLock, Becomes
  <2>2. /\ f \in Frames /\ f.pc = "sweep" /\ f.at = rv[r].at /\ f.entry = Nobody
        /\ f.now = rv[r].now /\ f.todo = rv[r].todo
    BY <1>1 DEF Frames, Steps
  <2> HIDE DEF f
  <2>3. \A w \in Workflows : held'[w] = r <=> Locks(f, w)
    BY <1>1, <2>1, <2>2 DEF IInv, Locked, HoldsLock, Locks, Holding, Sweeping
  <2>4. Sane(f)
    BY <1>1, <2>2 DEF IInv, Framed, Sane, Sweeping
  <2>5. KeptIn(f, dir'[f.at]) /\ SweptIn(f, dir'[f.entry]) /\ f.now <= clock
    BY <1>1, <2>1, <2>2 DEF IInv, Kept, SweptBy, KeptIn, SweptIn, Holding, Sweeping
  <2>6. \A q \in Reviews \ {r} : KeptBy(q)' /\ SweptBy(q)'
    BY <2>1, <2>2, OthersLeft, BecomesType DEF IInv, Typed
  <2>7. /\ dir' \in [Workflows -> Dirs] /\ held' \in [Workflows -> Reviews \cup {Nobody}]
        /\ \A w \in Workflows, q \in Reviews \ {r} : held'[w] = q <=> held[w] = q
    BY <2>1 DEF IInv, Typed
  <2>8. QED
    BY <2>1, <2>2, <2>3, <2>4, <2>5, <2>6, <2>7, StepKeeps
<1>5. QED
  BY <1>3, <1>4

(* The entry's lock is given back.                                         *)
LEMMA EntryDoneStep == ASSUME IInv, NEW r \in Reviews, EntryDone(r) PROVE IInv'
<1>1. rv[r] \in Frames /\ rv[r].pc = "empty" /\ KeptIn(rv[r], dir[rv[r].at]) /\ SweptIn(rv[r], dir[rv[r].entry])
  BY Whereabouts DEF EntryDone, IInv, Kept, KeptBy, SweptBy
<1> DEFINE e == rv[r].entry
           f == [rv[r] EXCEPT !.pc = "sweep", !.entry = Nobody, !.left = {}, !.stuck = {}]
<1>2. e \in Workflows /\ e # rv[r].at
  BY <1>1, Whereabouts DEF Sweeping
<1>3. Becomes(r, f) /\ held' = [held EXCEPT ![e] = Nobody] /\ UNCHANGED <<clock, dir>>
  BY <1>1 DEF EntryDone, Release, Becomes
<1>4. /\ f \in Frames /\ f.pc = "sweep" /\ f.at = rv[r].at /\ f.entry = Nobody
      /\ f.now = rv[r].now /\ f.todo = rv[r].todo
  BY <1>1 DEF Frames, Steps, Items
<1> HIDE DEF f
<1>5. /\ held' \in [Workflows -> Reviews \cup {Nobody}]
      /\ \A w \in Workflows : held'[w] = IF w = e THEN Nobody ELSE held[w]
  BY <1>2, <1>3 DEF IInv, Typed
<1>6. held[e] = r
  BY <1>1, <1>2 DEF IInv, Locked, HoldsLock, Locks, Sweeping
<1>7. \A w \in Workflows : held'[w] = r <=> Locks(f, w)
  BY <1>1, <1>2, <1>4, <1>5, ScratchAssumption DEF IInv, Locked, HoldsLock, Locks, Holding, Sweeping
<1>8. \A w \in Workflows, q \in Reviews \ {r} : held'[w] = q <=> held[w] = q
  BY <1>5, <1>6, ScratchAssumption
<1>9. Sane(f)
  BY <1>1, <1>4 DEF IInv, Framed, Sane, Sweeping
<1>10. KeptIn(f, dir'[f.at]) /\ SweptIn(f, dir'[f.entry]) /\ f.now <= clock
  BY <1>1, <1>3, <1>4 DEF IInv, Kept, SweptBy, KeptIn, SweptIn, Holding, Sweeping
<1>11. \A q \in Reviews \ {r} : KeptBy(q)' /\ SweptBy(q)'
  BY <1>3, <1>4, OthersLeft, BecomesType DEF IInv, Typed
<1>12. dir' \in [Workflows -> Dirs] /\ clock' = clock /\ f.at \in {rv[r].at, Nobody}
  BY <1>3, <1>4 DEF IInv, Typed
<1>13. QED
  BY <1>3, <1>4, <1>5, <1>7, <1>8, <1>9, <1>10, <1>11, <1>12, StepKeeps

(* The second look, under the lock, is the one that counts.                *)
LEMMA DecideStep == ASSUME IInv, NEW r \in Reviews, Decide(r) PROVE IInv'
<1>1. rv[r] \in Frames /\ rv[r].pc = "decide" /\ KeptIn(rv[r], dir[rv[r].at]) /\ SweptIn(rv[r], dir[rv[r].entry])
  BY Whereabouts DEF Decide, IInv, Kept, KeptBy, SweptBy
<1>2. rv[r].entry \in Workflows /\ dir[rv[r].entry] \in Dirs
  BY <1>1, Whereabouts DEF Sweeping
<1>3. CASE Stale(dir[rv[r].entry], rv[r].now)
  <2>1. Goto(r, "move", Present(dir[rv[r].entry])) /\ UNCHANGED <<clock, dir, held>>
    BY <1>1, <1>3 DEF Decide, StaleUnderLock
  <2>2. Present(dir[rv[r].entry]) \in SUBSET Items
    BY <1>2 DEF Present, Dirs, Items
  <2>3. KeptIn(At(r, "move", Present(dir[rv[r].entry])), dir[rv[r].at]) /\ SweptIn(At(r, "move", Present(dir[rv[r].entry])), dir[rv[r].entry])
    BY <1>1, <1>3 DEF At, Frames, KeptIn, SweptIn, Holding, Sweeping, Present
  <2>4. QED
    BY <1>1, <2>1, <2>2, <2>3, GotoKeeps DEF Steps, Holding, Sweeping
<1>4. CASE ~ Stale(dir[rv[r].entry], rv[r].now)
  <2>1. Goto(r, "empty", dir[rv[r].entry].trash) /\ UNCHANGED <<clock, dir, held>>
    BY <1>1, <1>4 DEF Decide, StaleUnderLock
  <2>2. dir[rv[r].entry].trash \in SUBSET Items
    BY <1>2 DEF Dirs
  <2>3. KeptIn(At(r, "empty", dir[rv[r].entry].trash), dir[rv[r].at]) /\ SweptIn(At(r, "empty", dir[rv[r].entry].trash), dir[rv[r].entry])
    BY <1>1, <1>4 DEF At, Frames, KeptIn, SweptIn, Holding, Sweeping
  <2>4. QED
    BY <1>1, <2>1, <2>2, <2>3, GotoKeeps DEF Steps, Holding, Sweeping
<1>5. QED
  BY <1>3, <1>4

(* What moving one item to trash makes of a directory.                     *)
LEMMA TrashedFields ==
  ASSUME NEW d \in Dirs, NEW item \in Items
  PROVE  /\ Trashed(d, item) \in Dirs
         /\ Trashed(d, item).owned = d.owned
         /\ Trashed(d, item).items = d.items \ {item}
         /\ Trashed(d, item).last = d.last
         /\ item = "cache" => Trashed(d, item).cache = Never
         /\ item = "used" => Trashed(d, item).used = Never
         /\ item # "cache" => Trashed(d, item).cache = d.cache
         /\ item # "used" => Trashed(d, item).used = d.used
<1>1. Never \in Never .. MaxClock
  BY ScratchAssumption DEF Never
<1>2. CASE item = "cache"
  <2>1. Trashed(d, item) = [d EXCEPT !.cache = Never, !.items = d.items \ {item}, !.trash = d.trash \cup {item}]
    BY <1>2 DEF Trashed, Dirs
  <2>2. d.trash \cup {item} \in SUBSET Items /\ d.items \ {item} \in SUBSET PerRound
    BY DEF Dirs
  <2>3. /\ Trashed(d, item).cache = Never /\ Trashed(d, item).used = d.used
        /\ Trashed(d, item).owned = d.owned /\ Trashed(d, item).items = d.items \ {item}
        /\ Trashed(d, item).last = d.last
    BY <2>1 DEF Dirs
  <2>4. Trashed(d, item) \in Dirs
    BY <1>1, <2>1, <2>2 DEF Dirs
  <2>5. QED
    BY <1>2, <2>3, <2>4
<1>3. CASE item = "used"
  <2>1. Trashed(d, item) = [d EXCEPT !.used = Never, !.items = d.items \ {item}, !.trash = d.trash \cup {item}]
    BY <1>3 DEF Trashed, Dirs
  <2>2. d.trash \cup {item} \in SUBSET Items /\ d.items \ {item} \in SUBSET PerRound
    BY DEF Dirs
  <2>3. /\ Trashed(d, item).used = Never /\ Trashed(d, item).cache = d.cache
        /\ Trashed(d, item).owned = d.owned /\ Trashed(d, item).items = d.items \ {item}
        /\ Trashed(d, item).last = d.last
    BY <2>1 DEF Dirs
  <2>4. Trashed(d, item) \in Dirs
    BY <1>1, <2>1, <2>2 DEF Dirs
  <2>5. QED
    BY <1>3, <2>3, <2>4
<1>4. CASE item \notin {"cache", "used"}
  <2>1. Trashed(d, item) = [d EXCEPT !.items = d.items \ {item}, !.trash = d.trash \cup {item}]
    BY <1>4 DEF Trashed, Dirs
  <2>2. d.items \ {item} \in SUBSET PerRound /\ d.trash \cup {item} \in SUBSET Items
    BY DEF Dirs
  <2>3. QED
    BY <1>4, <2>1, <2>2 DEF Dirs
<1>5. QED
  BY <1>2, <1>3, <1>4

(* The cache first and the stamp last.                                     *)
LEMMA MovedInOrder ==
  ASSUME NEW left \in SUBSET Items, NEW item \in NextMoved(left), left # {}
  PROVE  /\ item \in left
         /\ "cache" \in left => item = "cache"
         /\ item = "used" => left = {"used"}
<1>1. CASE "cache" \in left
  <2>1. NextMoved(left) = {"cache"}
    BY <1>1 DEF NextMoved
  <2>2. QED
    BY <1>1, <2>1
<1>2. CASE "cache" \notin left /\ left # {"used"}
  <2>1. NextMoved(left) = left \ {"used"}
    BY <1>2 DEF NextMoved
  <2>2. QED
    BY <1>2, <2>1
<1>3. CASE "cache" \notin left /\ left = {"used"}
  <2>1. NextMoved(left) = left
    BY <1>3 DEF NextMoved
  <2>2. QED
    BY <1>3, <2>1
<1>4. QED
  BY <1>1, <1>2, <1>3

(* What is moved belongs to a directory in nobody's use.                   *)
LEMMA MoveToTrashStep == ASSUME IInv, NEW r \in Reviews, MoveToTrash(r) PROVE IInv'
<1>1. rv[r] \in Frames /\ rv[r].pc = "move" /\ KeptIn(rv[r], dir[rv[r].at]) /\ SweptIn(rv[r], dir[rv[r].entry])
  BY Whereabouts DEF MoveToTrash, IInv, Kept, KeptBy, SweptBy
<1>2. rv[r].entry \in Workflows /\ dir[rv[r].entry] \in Dirs /\ rv[r].entry # rv[r].at /\ rv[r].at \in Workflows
  BY <1>1, Whereabouts DEF Sweeping
<1>3. HoldsLock(r, rv[r].entry)
  BY <1>1 DEF HoldsLock, Locks, Sweeping
<1>4. CASE rv[r].left = {}
  <2>1. Goto(r, "empty", dir[rv[r].entry].trash) /\ UNCHANGED <<clock, dir, held>>
    BY <1>1, <1>4 DEF MoveToTrash
  <2>2. dir[rv[r].entry].trash \in SUBSET Items
    BY <1>2 DEF Dirs
  <2>3. KeptIn(At(r, "empty", dir[rv[r].entry].trash), dir[rv[r].at]) /\ SweptIn(At(r, "empty", dir[rv[r].entry].trash), dir[rv[r].entry])
    BY <1>1, <1>4 DEF At, Frames, KeptIn, SweptIn, Holding, Sweeping
  <2>4. QED
    BY <1>1, <2>1, <2>2, <2>3, GotoKeeps DEF Steps, Holding, Sweeping
<1>5. ASSUME NEW item \in NextMoved(rv[r].left), rv[r].left # {},
             dir' = [dir EXCEPT ![rv[r].entry] = Trashed(@, item)],
             Goto(r, "move", rv[r].left \ {item}), UNCHANGED <<clock, held>>
      PROVE  IInv'
  <2>0. item \in rv[r].left /\ item \in Items /\ ("cache" \in rv[r].left => item = "cache")
    BY <1>1, <1>5, MovedInOrder DEF Frames
  <2> DEFINE d == Trashed(dir[rv[r].entry], item)
  <2>1. Goto(r, "move", rv[r].left \ {item}) /\ dir' = [dir EXCEPT ![rv[r].entry] = d] /\ UNCHANGED <<clock, held>>
    BY <1>5
  <2>2. rv[r].left \ {item} \in SUBSET Items
    BY <1>1 DEF Frames
  <2>3. d \in Dirs /\ d.owned = dir[rv[r].entry].owned
    BY <1>2, <2>0, TrashedFields
  <2>3a. d.items = dir[rv[r].entry].items \ {item}
    BY <1>2, <2>0, TrashedFields
  <2> HIDE DEF d
  <2>4. dir'[rv[r].entry] = d /\ \A v \in Workflows \ {rv[r].entry} : dir'[v] = dir[v]
    BY <1>2, <2>1 DEF IInv, Typed
  <2>5. KeptIn(At(r, "move", rv[r].left \ {item}), dir'[rv[r].at]) /\ SweptIn(At(r, "move", rv[r].left \ {item}), dir'[rv[r].entry])
    BY <1>1, <1>2, <2>0, <2>3, <2>3a, <2>4 DEF At, Frames, KeptIn, SweptIn, Holding, Sweeping, Dirs
  <2>6. QED
    BY <1>1, <1>2, <1>3, <2>1, <2>2, <2>3, <2>5, GotoDirKeeps DEF Steps, Holding, Sweeping
<1>6. ASSUME NEW item \in NextMoved(rv[r].left), rv[r].left # {},
             rv' = [rv EXCEPT ![r].left = @ \ {item}, ![r].stuck = @ \cup {item}],
             UNCHANGED <<clock, dir, held>>
      PROVE  IInv'
  <2> DEFINE f == [rv[r] EXCEPT !.left = @ \ {item}, !.stuck = @ \cup {item}]
  <2>1. item \in Items
    BY <1>1, <1>6, MovedInOrder DEF Frames
  <2>2. Becomes(r, f)
    BY <1>1, <1>6 DEF Becomes
  <2>3. f \in Frames
    BY <1>1, <2>1 DEF Frames
  <2>4. /\ f.pc = "move" /\ f.at = rv[r].at /\ f.entry = rv[r].entry /\ f.now = rv[r].now
        /\ f.todo = rv[r].todo /\ f.left = rv[r].left \ {item} /\ f.stuck = rv[r].stuck \cup {item}
    BY <1>1 DEF Frames
  <2> HIDE DEF f
  <2>5. Sane(f)
    BY <1>1, <2>4 DEF IInv, Framed, Sane
  <2>6. KeptIn(f, dir[f.at]) /\ SweptIn(f, dir[f.entry])
    BY <1>1, <2>4 DEF KeptIn, SweptIn, Holding, Sweeping
  <2>7. QED
    BY <1>1, <1>6, <2>2, <2>3, <2>4, <2>5, <2>6, FrameKeeps
<1>7. QED
  BY <1>1, <1>4, <1>5, <1>6 DEF MoveToTrash

(* Trash is nobody's.                                                      *)
LEMMA RemoveTreeStep == ASSUME IInv, NEW r \in Reviews, RemoveTree(r) PROVE IInv'
<1>1. rv[r] \in Frames /\ rv[r].pc = "empty" /\ KeptIn(rv[r], dir[rv[r].at]) /\ SweptIn(rv[r], dir[rv[r].entry])
  BY Whereabouts DEF RemoveTree, IInv, Kept, KeptBy, SweptBy
<1>2. rv[r].entry \in Workflows /\ dir[rv[r].entry] \in Dirs /\ rv[r].entry # rv[r].at /\ rv[r].at \in Workflows
  BY <1>1, Whereabouts DEF Sweeping
<1>3. HoldsLock(r, rv[r].entry)
  BY <1>1 DEF HoldsLock, Locks, Sweeping
<1>4. ASSUME NEW item \in rv[r].left, UNCHANGED <<clock, dir, held>>, Goto(r, "empty", rv[r].left \ {item})
      PROVE  IInv'
  <2>1. Goto(r, "empty", (rv[r].left \ {item})) /\ UNCHANGED <<clock, dir, held>>
    BY <1>1, <1>4 DEF RemoveTree
  <2>2. (rv[r].left \ {item}) \in SUBSET Items
    BY <1>1 DEF Frames
  <2>3. KeptIn(At(r, "empty", (rv[r].left \ {item})), dir[rv[r].at]) /\ SweptIn(At(r, "empty", (rv[r].left \ {item})), dir[rv[r].entry])
    BY <1>1, <1>4 DEF At, Frames, KeptIn, SweptIn, Holding, Sweeping
  <2>4. QED
    BY <1>1, <2>1, <2>2, <2>3, GotoKeeps DEF Steps, Holding, Sweeping
<1>5. ASSUME NEW item \in rv[r].left, dir' = [dir EXCEPT ![rv[r].entry].trash = @ \ {item}],
             Goto(r, "empty", rv[r].left \ {item}), UNCHANGED <<clock, held>>
      PROVE  IInv'
  <2> DEFINE d == [dir[rv[r].entry] EXCEPT !.trash = @ \ {item}]
  <2>1. Goto(r, "empty", rv[r].left \ {item}) /\ dir' = [dir EXCEPT ![rv[r].entry] = d] /\ UNCHANGED <<clock, held>>
    BY <1>5
  <2>2. rv[r].left \ {item} \in SUBSET Items
    BY <1>1 DEF Frames
  <2>3. d \in Dirs /\ d.owned = dir[rv[r].entry].owned
    BY <1>1, <1>2 DEF Dirs
  <2>4. dir'[rv[r].entry] = d /\ \A v \in Workflows \ {rv[r].entry} : dir'[v] = dir[v]
    BY <1>2, <2>1 DEF IInv, Typed
  <2>5. KeptIn(At(r, "empty", rv[r].left \ {item}), dir'[rv[r].at]) /\ SweptIn(At(r, "empty", rv[r].left \ {item}), dir'[rv[r].entry])
    BY <1>1, <1>2, <2>4 DEF At, Frames, KeptIn, SweptIn, Holding, Sweeping, Dirs
  <2>6. QED
    BY <1>1, <1>2, <1>3, <2>1, <2>2, <2>3, <2>5, GotoDirKeeps DEF Steps, Holding, Sweeping
<1>6. QED
  BY <1>4, <1>5 DEF RemoveTree

(* The review goes on in its own directory.                                *)
LEMMA SweepDoneStep == ASSUME IInv, NEW r \in Reviews, SweepDone(r) PROVE IInv'
<1>1. rv[r] \in Frames /\ rv[r].pc = "sweep" /\ KeptIn(rv[r], dir[rv[r].at]) /\ SweptIn(rv[r], dir[rv[r].entry])
  BY Whereabouts DEF SweepDone, IInv, Kept, KeptBy, SweptBy
<1>2. rv[r].at \in Workflows /\ dir[rv[r].at] \in Dirs
  BY <1>1, Whereabouts
<1>3. CASE rv[r].live
  <2>1. Goto(r, "clean", dir[rv[r].at].items) /\ UNCHANGED <<clock, dir, held>>
    BY <1>1, <1>3 DEF SweepDone
  <2>2. dir[rv[r].at].items \in SUBSET Items
    BY <1>2 DEF Dirs, Items
  <2>3. KeptIn(At(r, "clean", dir[rv[r].at].items), dir[rv[r].at]) /\ SweptIn(At(r, "clean", dir[rv[r].at].items), dir[rv[r].entry])
    BY <1>1, <1>3 DEF At, Frames, KeptIn, SweptIn, Holding, Sweeping
  <2>4. QED
    BY <1>1, <2>1, <2>2, <2>3, GotoKeeps DEF Steps, Holding, Sweeping
<1>4. CASE ~ rv[r].live
  BY <1>1, <1>4, ReleaseKeeps DEF SweepDone, Becomes, Holding, Sweeping
<1>5. QED
  BY <1>3, <1>4

(* Leftovers of earlier rounds are cleared before anything is made.        *)
LEMMA CleanStep == ASSUME IInv, NEW r \in Reviews, Clean(r) PROVE IInv'
<1>1. rv[r] \in Frames /\ rv[r].pc = "clean" /\ KeptIn(rv[r], dir[rv[r].at]) /\ SweptIn(rv[r], dir[rv[r].entry])
  BY Whereabouts DEF Clean, IInv, Kept, KeptBy, SweptBy
<1>2. rv[r].at \in Workflows /\ dir[rv[r].at] \in Dirs
  BY <1>1, Whereabouts
<1>3. HoldsLock(r, rv[r].at)
  BY <1>1 DEF HoldsLock, Locks, Holding
<1>4. CASE Closing(r) /\ UNCHANGED <<clock, dir, held>>
  <2>1. Goto(r, "close", dir[rv[r].at].items) /\ UNCHANGED <<clock, dir, held>>
    BY <1>1, <1>4 DEF Closing
  <2>2. dir[rv[r].at].items \in SUBSET Items
    BY <1>2 DEF Dirs, Items
  <2>3. KeptIn(At(r, "close", dir[rv[r].at].items), dir[rv[r].at]) /\ SweptIn(At(r, "close", dir[rv[r].at].items), dir[rv[r].entry])
    BY <1>1, <1>4 DEF At, Frames, KeptIn, SweptIn, Holding, Sweeping
  <2>4. QED
    BY <1>1, <2>1, <2>2, <2>3, GotoKeeps DEF Steps, Holding, Sweeping
<1>5. CASE Goto(r, "make", PerRound \cup {"cache"}) /\ UNCHANGED <<clock, dir, held>>
  <2>1. Goto(r, "make", (PerRound \cup {"cache"})) /\ UNCHANGED <<clock, dir, held>>
    BY <1>1, <1>5 DEF Goto
  <2>2. (PerRound \cup {"cache"}) \in SUBSET Items
    BY DEF Items
  <2>3. KeptIn(At(r, "make", (PerRound \cup {"cache"})), dir[rv[r].at]) /\ SweptIn(At(r, "make", (PerRound \cup {"cache"})), dir[rv[r].entry])
    BY <1>1, <1>5 DEF At, Frames, KeptIn, SweptIn, Holding, Sweeping
  <2>4. QED
    BY <1>1, <2>1, <2>2, <2>3, GotoKeeps DEF Steps, Holding, Sweeping
<1>6. ASSUME NEW item \in rv[r].left, dir' = [dir EXCEPT ![rv[r].at].items = @ \ {item}],
             Goto(r, "clean", rv[r].left \ {item}), UNCHANGED <<clock, held>>
      PROVE  IInv'
  <2> DEFINE d == [dir[rv[r].at] EXCEPT !.items = @ \ {item}]
  <2>1. Goto(r, "clean", rv[r].left \ {item}) /\ dir' = [dir EXCEPT ![rv[r].at] = d] /\ UNCHANGED <<clock, held>>
    BY <1>6
  <2>2. rv[r].left \ {item} \in SUBSET Items
    BY <1>1 DEF Frames
  <2>3. d \in Dirs /\ d.owned = dir[rv[r].at].owned
    BY <1>1, <1>2 DEF Dirs
  <2>4. dir'[rv[r].at] = d /\ \A v \in Workflows \ {rv[r].at} : dir'[v] = dir[v]
    BY <1>2, <2>1 DEF IInv, Typed
  <2>5. KeptIn(At(r, "clean", rv[r].left \ {item}), dir'[rv[r].at]) /\ SweptIn(At(r, "clean", rv[r].left \ {item}), dir'[rv[r].entry])
    BY <1>1, <1>2, <2>4 DEF At, Frames, KeptIn, SweptIn, Holding, Sweeping, Dirs
  <2>6. QED
    BY <1>1, <1>2, <1>3, <2>1, <2>2, <2>3, <2>5, GotoDirKeeps DEF Steps, Holding, Sweeping
<1>7. QED
  BY <1>4, <1>5, <1>6 DEF Clean

(* What making one item makes of a directory.                             *)
LEMMA MadeFields ==
  ASSUME NEW d \in Dirs, NEW item \in PerRound \cup {"cache"}, clock \in 0 .. MaxClock
  PROVE  /\ Made(d, item) \in Dirs
         /\ Made(d, item).owned = d.owned
         /\ Made(d, item).used = d.used
         /\ Made(d, item).last = d.last
         /\ d.items \subseteq Made(d, item).items
         /\ item # "cache" => item \in Made(d, item).items
         /\ d.cache # Never \/ item = "cache" => Made(d, item).cache # Never
<1>1. clock \in Never .. MaxClock /\ clock # Never
  BY ScratchAssumption DEF Never
<1>2. CASE item # "cache"
  <2>1. Made(d, item) = [d EXCEPT !.items = d.items \cup {item}] /\ item \in PerRound
    BY <1>2 DEF Made
  <2>2. QED
    BY <1>2, <2>1 DEF Dirs
<1>3. CASE item = "cache"
  BY <1>1, <1>3 DEF Made, Dirs
<1>4. QED
  BY <1>2, <1>3

(* What is made is made under the lock.                                    *)
LEMMA MakeStep == ASSUME IInv, NEW r \in Reviews, Make(r) PROVE IInv'
<1>1. rv[r] \in Frames /\ rv[r].pc = "make" /\ KeptIn(rv[r], dir[rv[r].at]) /\ SweptIn(rv[r], dir[rv[r].entry])
  BY Whereabouts DEF Make, IInv, Kept, KeptBy, SweptBy
<1>2. rv[r].at \in Workflows /\ dir[rv[r].at] \in Dirs
  BY <1>1, Whereabouts
<1>3. HoldsLock(r, rv[r].at)
  BY <1>1 DEF HoldsLock, Locks, Holding
<1>4. CASE rv[r].left = {}
  <2>1. Goto(r, "use", {}) /\ UNCHANGED <<clock, dir, held>>
    BY <1>1, <1>4 DEF Make
  <2>2. {} \in SUBSET Items
    BY DEF Items
  <2>3. KeptIn(At(r, "use", {}), dir[rv[r].at]) /\ SweptIn(At(r, "use", {}), dir[rv[r].entry])
    BY <1>1, <1>4 DEF At, Frames, KeptIn, SweptIn, Holding, Sweeping
  <2>4. QED
    BY <1>1, <2>1, <2>2, <2>3, GotoKeeps DEF Steps, Holding, Sweeping
<1>5. ASSUME NEW item \in rv[r].left,
             dir' = [dir EXCEPT ![rv[r].at] = Made(@, item)],
             Goto(r, "make", rv[r].left \ {item}), UNCHANGED <<clock, held>>
      PROVE  IInv'
  <2>0. /\ item \in PerRound \cup {"cache"} /\ clock \in 0 .. MaxClock
        /\ Made(dir[rv[r].at], item).owned = dir[rv[r].at].owned
        /\ Made(dir[rv[r].at], item).used = dir[rv[r].at].used
        /\ dir[rv[r].at].items \subseteq Made(dir[rv[r].at], item).items
        /\ item # "cache" => item \in Made(dir[rv[r].at], item).items
        /\ dir[rv[r].at].cache # Never \/ item = "cache" => Made(dir[rv[r].at], item).cache # Never
    BY <1>1, <1>2, <1>5, MadeFields DEF KeptIn, IInv, Typed
  <2>0a. /\ dir[rv[r].at].owned /\ dir[rv[r].at].used # Never
         /\ rv[r].left \subseteq PerRound \cup {"cache"}
         /\ PerRound \ rv[r].left \subseteq dir[rv[r].at].items
         /\ "cache" \in rv[r].left \/ dir[rv[r].at].cache # Never
    BY <1>1 DEF KeptIn, Holding
  <2>0b. "cache" \notin PerRound
    BY ScratchAssumption
  <2> DEFINE d == Made(dir[rv[r].at], item)
  <2>1. Goto(r, "make", rv[r].left \ {item}) /\ dir' = [dir EXCEPT ![rv[r].at] = d] /\ UNCHANGED <<clock, held>>
    BY <1>5
  <2>2. rv[r].left \ {item} \in SUBSET Items
    BY <1>1 DEF Frames
  <2>3. d \in Dirs /\ d.owned = dir[rv[r].at].owned
    BY <1>2, <2>0, MadeFields
  <2>3a. d.used = dir[rv[r].at].used /\ dir[rv[r].at].items \subseteq d.items /\ (item # "cache" => item \in d.items)
         /\ (dir[rv[r].at].cache # Never \/ item = "cache" => d.cache # Never)
    BY <2>0
  <2> HIDE DEF d
  <2>4. dir'[rv[r].at] = d /\ \A v \in Workflows \ {rv[r].at} : dir'[v] = dir[v]
    BY <1>2, <2>1 DEF IInv, Typed
  <2>5. KeptIn(At(r, "make", rv[r].left \ {item}), dir'[rv[r].at]) /\ SweptIn(At(r, "make", rv[r].left \ {item}), dir'[rv[r].entry])
    <3> DEFINE f == At(r, "make", rv[r].left \ {item})
    <3>1. f.pc = "make" /\ f.left = rv[r].left \ {item}
      BY <1>1 DEF At, Frames
    <3> HIDE DEF f
    <3>2. PerRound \ f.left \subseteq d.items
      BY <2>0a, <2>0b, <2>3a, <3>1
    <3>3. "cache" \in f.left \/ d.cache # Never
      BY <2>0a, <2>3a, <3>1
    <3>4. KeptIn(f, d)
      BY <2>0a, <2>3, <2>3a, <3>1, <3>2, <3>3 DEF KeptIn, Holding
    <3>5. SweptIn(f, dir'[rv[r].entry])
      BY <3>1 DEF SweptIn, Sweeping
    <3>6. QED
      BY <2>4, <3>4, <3>5 DEF f
  <2>6. QED
    BY <1>1, <1>2, <1>3, <2>1, <2>2, <2>3, <2>5, GotoDirKeeps DEF Steps, Holding, Sweeping
<1>6. QED
  BY <1>1, <1>4, <1>5 DEF Make

(* Close removes only the review's own items.                              *)
LEMMA CloseStep == ASSUME IInv, NEW r \in Reviews, Close(r) PROVE IInv'
<1>1. rv[r] \in Frames /\ rv[r].pc = "close" /\ KeptIn(rv[r], dir[rv[r].at]) /\ SweptIn(rv[r], dir[rv[r].entry])
  BY Whereabouts DEF Close, IInv, Kept, KeptBy, SweptBy
<1>2. rv[r].at \in Workflows /\ dir[rv[r].at] \in Dirs
  BY <1>1, Whereabouts
<1>3. HoldsLock(r, rv[r].at)
  BY <1>1 DEF HoldsLock, Locks, Holding
<1>4. CASE rv[r].left = {}
  BY <1>1, <1>4, ReleaseKeeps DEF Close, Becomes, Holding, Sweeping
<1>5. ASSUME NEW item \in rv[r].left, UNCHANGED <<clock, dir, held>>, Goto(r, "close", rv[r].left \ {item})
      PROVE  IInv'
  <2>1. Goto(r, "close", (rv[r].left \ {item})) /\ UNCHANGED <<clock, dir, held>>
    BY <1>1, <1>5 DEF Close
  <2>2. (rv[r].left \ {item}) \in SUBSET Items
    BY <1>1 DEF Frames
  <2>3. KeptIn(At(r, "close", (rv[r].left \ {item})), dir[rv[r].at]) /\ SweptIn(At(r, "close", (rv[r].left \ {item})), dir[rv[r].entry])
    BY <1>1, <1>5 DEF At, Frames, KeptIn, SweptIn, Holding, Sweeping
  <2>4. QED
    BY <1>1, <2>1, <2>2, <2>3, GotoKeeps DEF Steps, Holding, Sweeping
<1>6. ASSUME NEW item \in rv[r].left, dir' = [dir EXCEPT ![rv[r].at].items = @ \ {item}],
             Goto(r, "close", rv[r].left \ {item}), UNCHANGED <<clock, held>>
      PROVE  IInv'
  <2> DEFINE d == [dir[rv[r].at] EXCEPT !.items = @ \ {item}]
  <2>1. Goto(r, "close", rv[r].left \ {item}) /\ dir' = [dir EXCEPT ![rv[r].at] = d] /\ UNCHANGED <<clock, held>>
    BY <1>6
  <2>2. rv[r].left \ {item} \in SUBSET Items
    BY <1>1 DEF Frames
  <2>3. d \in Dirs /\ d.owned = dir[rv[r].at].owned
    BY <1>1, <1>2 DEF Dirs
  <2>4. dir'[rv[r].at] = d /\ \A v \in Workflows \ {rv[r].at} : dir'[v] = dir[v]
    BY <1>2, <2>1 DEF IInv, Typed
  <2>5. KeptIn(At(r, "close", rv[r].left \ {item}), dir'[rv[r].at]) /\ SweptIn(At(r, "close", rv[r].left \ {item}), dir'[rv[r].entry])
    BY <1>1, <1>2, <2>4 DEF At, Frames, KeptIn, SweptIn, Holding, Sweeping, Dirs
  <2>6. QED
    BY <1>1, <1>2, <1>3, <2>1, <2>2, <2>3, <2>5, GotoDirKeeps DEF Steps, Holding, Sweeping
<1>7. QED
  BY <1>4, <1>5, <1>6 DEF Close

(* A review starts with no lock.                                           *)
LEMMA PrepareStep == ASSUME IInv, NEW r \in Reviews, NEW w \in Workflows, Prepare(r, w) PROVE IInv'
<1> DEFINE f == [rv[r] EXCEPT !.pc = "lock", !.at = w]
           d == [dir[w] EXCEPT !.owned = TRUE]
<1>1. rv[r] \in Frames /\ rv[r].pc = "idle" /\ dir[w] \in Dirs
  BY Whereabouts DEF Prepare, IInv, Typed
<1>2. Becomes(r, f) /\ dir' = [dir EXCEPT ![w] = d] /\ UNCHANGED <<clock, held>>
  BY <1>1 DEF Prepare, Becomes
<1>3. f \in Frames /\ f.pc = "lock" /\ f.at = w /\ f.entry = rv[r].entry /\ f.now = rv[r].now /\ f.todo = rv[r].todo
  BY <1>1 DEF Frames, Steps
<1>4. d \in Dirs /\ d.owned /\ d.used = dir[w].used /\ d.cache = dir[w].cache /\ d.items = dir[w].items
  BY <1>1 DEF Dirs
<1>5. rv' \in [Reviews -> Frames] /\ rv'[r] = f /\ \A q \in Reviews \ {r} : rv'[q] = rv[q]
  BY <1>2, <1>3, BecomesType DEF IInv, Typed
<1>6. /\ dir' \in [Workflows -> Dirs] /\ dir'[w] = d
      /\ \A v \in Workflows \ {w} : dir'[v] = dir[v]
  BY <1>2, <1>4 DEF IInv, Typed
<1> HIDE DEF f, d
<1>7. Typed'
  BY <1>2, <1>5, <1>6 DEF IInv, Typed
<1>8. Framed'
  BY <1>1, <1>3, <1>5, ScratchAssumption DEF IInv, Framed, Sane, Frames, Sweeping
<1>9. Apart'
  BY <1>3, <1>5 DEF IInv, Apart, Prepare
<1>10. Locked'
  <2>1. \A v \in Workflows : ~ Locks(rv[r], v) /\ ~ Locks(f, v)
    BY <1>1, <1>3 DEF Locks, Holding, Sweeping
  <2>2. QED
    BY <1>2, <1>5, <2>1 DEF IInv, Locked, HoldsLock
<1>11. ASSUME NEW q \in Reviews PROVE KeptBy(q)' /\ SweptBy(q)'
  <2>1. CASE q = r
    BY <1>1, <1>2, <1>3, <1>4, <1>5, <1>6, <2>1 DEF IInv, Kept, KeptBy, SweptBy, KeptIn, SweptIn, Holding, Sweeping
  <2>2. CASE q # r
    <3>1. rv'[q] = rv[q] /\ rv[q].at # w /\ KeptIn(rv[q], dir[rv[q].at]) /\ SweptIn(rv[q], dir[rv[q].entry]) /\ rv[q].now <= clock
      BY <1>5, <2>2 DEF Prepare, IInv, Kept, KeptBy, SweptBy
    <3>2. KeptIn(rv[q], dir'[rv[q].at])
      BY <1>6, <3>1, Whereabouts DEF KeptIn, Holding
    <3>3. SweptIn(rv[q], dir'[rv[q].entry])
      BY <1>4, <1>6, <3>1, Whereabouts DEF SweptIn, Stale, LastUse, Sweeping
    <3>4. QED
      BY <1>2, <3>1, <3>2, <3>3 DEF KeptBy, SweptBy
  <2>3. QED
    BY <2>1, <2>2
<1>12. QED
  BY <1>7, <1>8, <1>9, <1>10, <1>11 DEF IInv, Kept

(* A crash frees the lock and leaves the directory.                        *)
LEMMA CrashStep == ASSUME IInv, NEW r \in Reviews, Crash(r) PROVE IInv'
<1>1. Becomes(r, Idle) /\ UNCHANGED <<clock, dir>>
  BY DEF Crash, Becomes
<1>2. /\ held' \in [Workflows -> Reviews \cup {Nobody}]
      /\ \A w \in Workflows : held'[w] # r
      /\ \A w \in Workflows, q \in Reviews \ {r} : held'[w] = q <=> held[w] = q
  BY ScratchAssumption DEF Crash, IInv, Typed
<1>3. QED
  BY <1>1, <1>2, EndKeeps

(* Time only makes directories older.                                      *)
LEMMA TickStep == ASSUME IInv, Tick PROVE IInv'
<1>1. clock \in 0 .. MaxClock /\ clock' = clock + 1 /\ clock < MaxClock /\ UNCHANGED <<dir, held, rv>>
  BY DEF Tick, IInv, Typed
<1>2. Typed'
  BY <1>1, ScratchAssumption DEF IInv, Typed
<1>3. Framed' /\ Apart' /\ Locked'
  BY <1>1 DEF IInv, Framed, Apart, Locked, HoldsLock
<1>4. ASSUME NEW r \in Reviews PROVE KeptBy(r)' /\ SweptBy(r)'
  <2>1. rv[r].now \in Nat /\ rv[r].now <= clock /\ KeptIn(rv[r], dir[rv[r].at]) /\ SweptIn(rv[r], dir[rv[r].entry])
    BY Whereabouts, ScratchAssumption DEF IInv, Kept, KeptBy, SweptBy, Frames
  <2>2. QED
    BY <1>1, <2>1 DEF KeptBy, SweptBy
<1>5. QED
  BY <1>2, <1>3, <1>4 DEF IInv, Kept

(* The invariant is inductive.                                             *)
LEMMA IInvInit == Init => IInv
<1> SUFFICES ASSUME Init PROVE IInv
  OBVIOUS
<1>1. Typed
  BY IdleType, ScratchAssumption DEF Init, Typed
<1>2. Framed /\ Apart
  BY DEF Init, Framed, Sane, Apart, Idle, Sweeping
<1>3. Locked
  BY ScratchAssumption DEF Init, Locked, HoldsLock, Locks, Idle, Holding, Sweeping
<1>4. Kept
  <2> SUFFICES ASSUME NEW r \in Reviews PROVE KeptBy(r) /\ SweptBy(r)
    BY DEF Kept
  <2>1. rv[r] = Idle /\ clock = 0
    BY DEF Init
  <2>2. QED
    BY <2>1 DEF KeptBy, SweptBy, KeptIn, SweptIn, Idle, Holding, Sweeping
<1>5. QED
  BY <1>1, <1>2, <1>3, <1>4 DEF IInv

(* Every step keeps the invariant.                                         *)
LEMMA IInvStep == IInv /\ [Next]_vars => IInv'
<1> SUFFICES ASSUME IInv, [Next]_vars PROVE IInv'
  OBVIOUS
<1>1. CASE UNCHANGED vars
  BY <1>1 DEF vars, IInv, Typed, Framed, Apart, Locked, HoldsLock, Kept, KeptBy, SweptBy
<1>2. CASE Next
  BY <1>2, AcquireLockStep, LockRefusedStep, StampStep, StampFailsStep, SweepEntryStep,
     TryEntryStep, DecideStep, MoveToTrashStep, RemoveTreeStep, EntryDoneStep,
     SweepDoneStep, CleanStep, MakeStep, PrepareFailsStep, CloseStep, ReviewEndsStep,
     ContextEndsStep, CrashStep, TickStep, PrepareStep
  DEF Next, Step
<1>3. QED
  BY <1>1, <1>2

(* For any reviews, workflows, clock and directories to start from.        *)
LEMMA IInvHolds == Spec => []IInv
BY IInvInit, IInvStep, PTL DEF Spec

-----------------------------------------------------------------------------
(* Theorems.                                                               *)

(* The types, and that a review holds a lock exactly where it should.      *)
THEOREM TypeCorrect == Spec => []TypeOK
<1>1. IInv => TypeOK
  BY DEF IInv, Typed, Locked, HoldsLock, Locks, TypeOK
<1>2. QED
  BY <1>1, IInvHolds, PTL

(* Nothing a reviewer works in is taken from it, however many reviews      *)
(* prepare, sweep, get cancelled or die meanwhile.                         *)
THEOREM InUseIsKept == Spec => []InUseKept
<1>1. IInv => InUseKept
  <2> SUFFICES ASSUME IInv, NEW r \in Reviews, rv[r].pc = "use"
               PROVE  LET d == dir[rv[r].at] IN d.items = PerRound /\ d.cache # Never /\ d.used # Never
    BY DEF InUseKept
  <2>1. KeptIn(rv[r], dir[rv[r].at]) /\ dir[rv[r].at] \in Dirs
    BY Whereabouts DEF IInv, Kept, KeptBy
  <2>2. QED
    BY <2>1 DEF KeptIn, Holding, Dirs
<1>2. QED
  BY <1>1, IInvHolds, PTL

-----------------------------------------------------------------------------
(* What a step does to a directory.                                        *)

(* What a review may do to a directory.                                    *)
Changes(r, w) ==
  \/ Prepare(r, w) /\ dir'[w] = [dir[w] EXCEPT !.owned = TRUE]
  \/ Stamp(r) /\ rv[r].at = w /\ dir'[w] = [dir[w] EXCEPT !.used = clock, !.last = clock]
  \/ /\ MoveToTrash(r) /\ rv[r].entry = w /\ rv[r].left # {}
     /\ \E item \in NextMoved(rv[r].left) : dir'[w] = Trashed(dir[w], item)
  \/ RemoveTree(r) /\ rv[r].entry = w /\ \E item \in Items : dir'[w] = [dir[w] EXCEPT !.trash = @ \ {item}]
  \/ /\ Clean(r) /\ rv[r].at = w /\ rv'[r] # rv[r]
     /\ \E item \in Items : dir'[w] = [dir[w] EXCEPT !.items = @ \ {item}]
  \/ Make(r) /\ rv[r].at = w /\ \E item \in rv[r].left : dir'[w] = Made(dir[w], item)
  \/ /\ Close(r) /\ rv[r].at = w /\ rv'[r] # rv[r]
     /\ \E item \in Items : dir'[w] = [dir[w] EXCEPT !.items = @ \ {item}]

(* A step leaves a directory alone, or it is one of these.                 *)
LEMMA DirStep ==
  ASSUME IInv, [Next]_vars, NEW w \in Workflows, dir'[w] # dir[w]
  PROVE  \E r \in Reviews : Changes(r, w)
<1> USE DEF IInv, Typed
<1>0. \A r \in Reviews : rv[r].left \subseteq Items
  BY DEF Frames
<1>1. Next
  BY DEF vars
<1>2. ASSUME NEW r \in Reviews, NEW v \in Workflows, Prepare(r, v)
      PROVE  v = w /\ dir'[w] = [dir[w] EXCEPT !.owned = TRUE]
  BY <1>2 DEF Prepare
<1>3. ASSUME NEW r \in Reviews, Stamp(r)
      PROVE  rv[r].at = w /\ dir'[w] = [dir[w] EXCEPT !.used = clock, !.last = clock]
  BY <1>3 DEF Stamp
<1>4. ASSUME NEW r \in Reviews, MoveToTrash(r)
      PROVE  /\ rv[r].entry = w /\ rv[r].left # {}
             /\ \E item \in NextMoved(rv[r].left) : dir'[w] = Trashed(dir[w], item)
  BY <1>4 DEF MoveToTrash
<1>5. ASSUME NEW r \in Reviews, RemoveTree(r)
      PROVE  rv[r].entry = w /\ \E item \in Items : dir'[w] = [dir[w] EXCEPT !.trash = @ \ {item}]
  <2>1. PICK item \in rv[r].left : dir' = [dir EXCEPT ![rv[r].entry].trash = @ \ {item}]
    BY <1>5 DEF RemoveTree
  <2>2. item \in Items
    BY <1>0
  <2>3. rv[r].entry = w /\ dir'[w] = [dir[w] EXCEPT !.trash = @ \ {item}]
    BY <2>1
  <2>4. QED
    BY <2>2, <2>3
<1>6. ASSUME NEW r \in Reviews, Clean(r)
      PROVE  /\ rv[r].at = w /\ rv'[r] # rv[r]
             /\ \E item \in Items : dir'[w] = [dir[w] EXCEPT !.items = @ \ {item}]
  <2>1. PICK item \in rv[r].left : /\ dir' = [dir EXCEPT ![rv[r].at].items = @ \ {item}]
                                   /\ Goto(r, "clean", rv[r].left \ {item})
    BY <1>6 DEF Clean, Closing
  <2>2. item \in Items
    BY <1>0
  <2>3. rv[r].at = w /\ dir'[w] = [dir[w] EXCEPT !.items = @ \ {item}]
    BY <2>1
  <2>4. rv'[r].left # rv[r].left
    BY <2>1 DEF Goto, Frames
  <2>5. QED
    BY <2>2, <2>3, <2>4
<1>7. ASSUME NEW r \in Reviews, Make(r)
      PROVE  rv[r].at = w /\ \E item \in rv[r].left : dir'[w] = Made(dir[w], item)
  BY <1>7 DEF Make
<1>8. ASSUME NEW r \in Reviews, Close(r)
      PROVE  /\ rv[r].at = w /\ rv'[r] # rv[r]
             /\ \E item \in Items : dir'[w] = [dir[w] EXCEPT !.items = @ \ {item}]
  <2>1. PICK item \in rv[r].left : /\ dir' = [dir EXCEPT ![rv[r].at].items = @ \ {item}]
                                   /\ Goto(r, "close", rv[r].left \ {item})
    BY <1>8 DEF Close
  <2>2. item \in Items
    BY <1>0
  <2>3. rv[r].at = w /\ dir'[w] = [dir[w] EXCEPT !.items = @ \ {item}]
    BY <2>1
  <2>4. rv'[r].left # rv[r].left
    BY <2>1 DEF Goto, Frames
  <2>5. QED
    BY <2>2, <2>3, <2>4
<1>9. \A r \in Reviews :
        ~ (\/ AcquireLock(r) \/ LockRefused(r) \/ StampFails(r) \/ SweepEntry(r) \/ TryEntry(r)
           \/ Decide(r) \/ EntryDone(r) \/ SweepDone(r) \/ PrepareFails(r) \/ ReviewEnds(r)
           \/ ContextEnds(r) \/ Crash(r))
  BY DEF AcquireLock, LockRefused, StampFails, SweepEntry, TryEntry, Decide, EntryDone, SweepDone,
     PrepareFails, ReviewEnds, ContextEnds, Crash
<1>10. ~ Tick
  BY DEF Tick
<1>11. PICK r \in Reviews :
         \/ \E v \in Workflows : Prepare(r, v)
         \/ Stamp(r) \/ MoveToTrash(r) \/ RemoveTree(r) \/ Clean(r) \/ Make(r) \/ Close(r)
  BY Zenon, <1>1, <1>9, <1>10 DEF Next, Step
<1>12. Changes(r, w)
  BY Zenon, <1>2, <1>3, <1>4, <1>5, <1>6, <1>7, <1>8, <1>11 DEF Changes
<1>13. QED
  BY <1>12

-----------------------------------------------------------------------------
(* The age of a directory.                                                 *)

(* Counterpoint knows when d was used, and that is too long ago at t.      *)
Aged(d, t) == d.last # Never /\ t - d.last > MaxCacheAge

(* The stamp tells when a directory was used.  So does the cache of one    *)
(* without a stamp, unless a sweep moved the stamp and could not move the  *)
(* cache: the directory was stale already.                                 *)
Known(d, t) ==
  /\ d.used # Never => d.last = d.used
  /\ d.used = Never /\ d.cache # Never => d.last # Never /\ (d.last = d.cache \/ Aged(d, t))

AllKnown == \A w \in Workflows : Known(dir[w], clock)

MovesAged == \A r \in Reviews : rv[r].pc = "move" => Aged(dir[rv[r].entry], clock)

(* What is judged stale is.                                                *)
LEMMA StaleIsAged ==
  ASSUME NEW d \in Dirs, NEW now \in Nat, NEW t \in Nat, now <= t, Known(d, t), Stale(d, now)
  PROVE  Aged(d, t)
<1>1. MaxCacheAge \in Nat /\ d.used \in Int /\ d.cache \in Int /\ d.last \in Int
  BY ScratchAssumption DEF Dirs, Never
<1>2. CASE d.used # Never
  BY <1>1, <1>2 DEF Known, Stale, LastUse, Aged
<1>3. CASE d.used = Never
  <2>1. d.cache # Never /\ now - d.cache > MaxCacheAge
    BY <1>3 DEF Stale, LastUse
  <2>2. CASE d.last = d.cache
    BY <1>1, <2>1, <2>2 DEF Aged
  <2>3. QED
    BY <1>3, <2>1, <2>2 DEF Known
<1>4. QED
  BY <1>2, <1>3

(* What is known stays known.                                              *)
LEMMA AgedLater ==
  ASSUME NEW d \in Dirs, NEW t \in Nat, NEW u \in Nat, t <= u
  PROVE  (Aged(d, t) => Aged(d, u)) /\ (Known(d, t) => Known(d, u))
<1>1. MaxCacheAge \in Nat /\ d.last \in Int
  BY ScratchAssumption DEF Dirs, Never
<1>2. Aged(d, t) => Aged(d, u)
  BY <1>1 DEF Aged
<1>3. QED
  BY <1>2 DEF Known

(* The clock of a step.                                                    *)
LEMMA ClockStep ==
  ASSUME IInv, [Next]_vars
  PROVE  clock \in Nat /\ clock' \in Nat /\ clock <= clock'
<1>1. clock \in Nat /\ clock' \in 0 .. MaxClock
  BY IInvStep, ScratchAssumption DEF IInv, Typed
<1>2. clock' = clock \/ clock' = clock + 1
  <2>1. ASSUME NEW r \in Reviews, Step(r) PROVE clock' = clock
    BY Zenon, <2>1 DEF Step, AcquireLock, LockRefused, Stamp, StampFails, SweepEntry, TryEntry,
       Decide, MoveToTrash, RemoveTree, EntryDone, SweepDone, Clean, Make, PrepareFails, Close
  <2>2. ASSUME NEW r \in Reviews, NEW w \in Workflows, Prepare(r, w) PROVE clock' = clock
    BY <2>2 DEF Prepare
  <2>3. ASSUME NEW r \in Reviews, ReviewEnds(r) \/ ContextEnds(r) \/ Crash(r) PROVE clock' = clock
    BY <2>3 DEF ReviewEnds, ContextEnds, Crash
  <2>4. QED
    BY Zenon, <2>1, <2>2, <2>3 DEF Next, Tick, vars
<1>3. QED
  BY <1>1, <1>2, ScratchAssumption

(* What a step does to what is known of a directory.                       *)
LEMMA KnownStep ==
  ASSUME IInv, AllKnown, MovesAged, [Next]_vars, NEW w \in Workflows, dir'[w] # dir[w]
  PROVE  /\ Known(dir'[w], clock)
         /\ dir'[w].last = dir[w].last \/ \E r \in Reviews : Stamp(r) /\ rv[r].at = w
<1>1. dir[w] \in Dirs /\ Known(dir[w], clock) /\ clock \in 0 .. MaxClock
  BY DEF IInv, Typed, AllKnown
<1>2. ASSUME dir'[w] = [dir[w] EXCEPT !.owned = TRUE]
      PROVE  Known(dir'[w], clock) /\ dir'[w].last = dir[w].last
  BY <1>1, <1>2 DEF Known, Aged, Dirs
<1>3. ASSUME NEW r \in Reviews, Stamp(r), rv[r].at = w,
             dir'[w] = [dir[w] EXCEPT !.used = clock, !.last = clock]
      PROVE  Known(dir'[w], clock)
  <2>1. dir'[w].used = clock /\ dir'[w].last = clock /\ clock # Never
    BY <1>1, <1>3, ScratchAssumption DEF Dirs, Never
  <2>2. QED
    BY <2>1 DEF Known
<1>4. ASSUME NEW item \in Items,
             \/ dir'[w] = [dir[w] EXCEPT !.trash = @ \ {item}]
             \/ dir'[w] = [dir[w] EXCEPT !.items = @ \ {item}]
      PROVE  Known(dir'[w], clock) /\ dir'[w].last = dir[w].last
  <2>1. dir'[w].used = dir[w].used /\ dir'[w].cache = dir[w].cache /\ dir'[w].last = dir[w].last
    BY <1>1, <1>4 DEF Dirs
  <2>2. QED
    BY <1>1, <2>1 DEF Known, Aged
<1>5. ASSUME NEW r \in Reviews, MoveToTrash(r), rv[r].entry = w, rv[r].left # {},
             NEW item \in NextMoved(rv[r].left), dir'[w] = Trashed(dir[w], item)
      PROVE  Known(dir'[w], clock) /\ dir'[w].last = dir[w].last
  <2>1. rv[r].left \in SUBSET Items /\ rv[r].pc = "move"
    BY <1>5 DEF MoveToTrash, IInv, Typed, Frames
  <2>2. item \in Items
    BY <1>5, <2>1, MovedInOrder
  <2>3. dir'[w].last = dir[w].last
    BY <1>1, <1>5, <2>2, TrashedFields
  <2>4. Aged(dir'[w], clock)
    BY <1>5, <2>1, <2>3 DEF MovesAged, Aged
  <2>5. dir'[w].used # Never => dir'[w].used = dir[w].used
    BY <1>1, <1>5, <2>2, TrashedFields
  <2>6. QED
    BY <1>1, <2>3, <2>4, <2>5 DEF Known, Aged
<1>6. ASSUME NEW r \in Reviews, Make(r), rv[r].at = w, NEW item \in rv[r].left, dir'[w] = Made(dir[w], item)
      PROVE  Known(dir'[w], clock) /\ dir'[w].last = dir[w].last
  <2>1. KeptIn(rv[r], dir[w]) /\ rv[r].pc = "make"
    BY <1>6 DEF Make, IInv, Kept, KeptBy
  <2>2. item \in PerRound \cup {"cache"} /\ dir[w].used # Never
    BY <1>6, <2>1 DEF KeptIn, Holding
  <2>3. dir'[w].used = dir[w].used /\ dir'[w].last = dir[w].last
    BY <1>1, <1>6, <2>2, MadeFields DEF IInv, Typed
  <2>4. QED
    BY <1>1, <2>2, <2>3 DEF Known
<1>7. PICK r \in Reviews : Changes(r, w)
  BY DirStep
<1>8. QED
  BY Zenon, <1>2, <1>3, <1>4, <1>5, <1>6, <1>7 DEF Changes

(* Goto leaves every entry alone, and every other frame.                   *)
LEMMA GotoFrame ==
  ASSUME rv \in [Reviews -> Frames], NEW r \in Reviews, NEW step, NEW left, Goto(r, step, left),
         NEW q \in Reviews
  PROVE  /\ rv'[q].pc = IF q = r THEN step ELSE rv[q].pc
         /\ rv'[q].entry = rv[q].entry
  BY DEF Goto, Frames

(* A review that moves items has judged their directory under its lock.    *)
LEMMA MovingStep ==
  ASSUME IInv, [Next]_vars, NEW q \in Reviews, rv'[q].pc = "move"
  PROVE  \/ rv[q].pc = "move" /\ rv'[q].entry = rv[q].entry
         \/ /\ rv[q].pc = "decide" /\ rv'[q].entry = rv[q].entry
            /\ Stale(dir[rv[q].entry], rv[q].now)
            /\ UNCHANGED <<dir, clock>>
<1>1. rv \in [Reviews -> Frames]
  BY DEF IInv, Typed
<1>2. CASE rv'[q] = rv[q]
  BY <1>2
<1>3. ASSUME NEW r \in Reviews, Step(r) \/ ReviewEnds(r) \/ ContextEnds(r) \/ Crash(r), rv'[q] # rv[q]
      PROVE  \/ rv[q].pc = "move" /\ rv'[q].entry = rv[q].entry
             \/ /\ rv[q].pc = "decide" /\ rv'[q].entry = rv[q].entry
                /\ Stale(dir[rv[q].entry], rv[q].now)
                /\ UNCHANGED <<dir, clock>>
  <2>1. CASE Decide(r)
    BY <1>1, <1>3, <2>1 DEF Decide, StaleUnderLock, Goto, Frames
  <2>2. CASE MoveToTrash(r)
    <3>1. rv[r].pc = "move"
      BY <2>2 DEF MoveToTrash
    <3>2. CASE \E left : Goto(r, "move", left) \/ Goto(r, "empty", left)
      BY <1>1, <3>1, <3>2, GotoFrame
    <3>3. CASE \E item \in Items : rv' = [rv EXCEPT ![r].left = @ \ {item}, ![r].stuck = @ \cup {item}]
      BY <1>1, <3>1, <3>3 DEF Frames
    <3>4. CASE rv[r].left = {}
      BY <2>2, <3>2, <3>4 DEF MoveToTrash
    <3>5. CASE rv[r].left # {}
      <4>1. rv[r].left \in SUBSET Items
        BY <1>1 DEF Frames
      <4>2. PICK item \in NextMoved(rv[r].left) :
              \/ Goto(r, "move", rv[r].left \ {item})
              \/ rv' = [rv EXCEPT ![r].left = @ \ {item}, ![r].stuck = @ \cup {item}]
        BY <2>2, <3>5 DEF MoveToTrash
      <4>3. item \in Items
        BY <3>5, <4>1, <4>2, MovedInOrder
      <4>4. QED
        BY <3>2, <3>3, <4>2, <4>3
    <3>6. QED
      BY <3>4, <3>5
  <2>3. CASE ContextEnds(r)
    BY <1>1, <1>3, <2>3 DEF ContextEnds, Frames
  <2>4. CASE AcquireLock(r) \/ LockRefused(r) \/ Stamp(r) \/ StampFails(r) \/ Crash(r) \/ ReviewEnds(r)
    BY <1>1, <1>3, <2>4 DEF AcquireLock, LockRefused, Stamp, StampFails, Crash, ReviewEnds, Closing,
       Goto, Idle, Frames
  <2>5. CASE SweepEntry(r)
    BY <1>1, <1>3, <2>5 DEF SweepEntry, Frames
  <2>6. CASE TryEntry(r)
    BY <1>1, <1>3, <2>6 DEF TryEntry, TryLock, Frames
  <2>7. CASE EntryDone(r)
    BY <1>1, <1>3, <2>7 DEF EntryDone, Frames
  <2>8. ASSUME rv' = [rv EXCEPT ![r] = Idle] PROVE FALSE
    BY <1>1, <1>3, <2>8 DEF Idle
  <2>9. ASSUME \E left : \/ Goto(r, "empty", left) \/ Goto(r, "clean", left) \/ Goto(r, "make", left)
                         \/ Goto(r, "use", left) \/ Goto(r, "close", left)
        PROVE  rv[q].pc = "move" /\ rv'[q].entry = rv[q].entry
    BY <1>1, <2>9, GotoFrame
  <2>10. CASE RemoveTree(r) \/ SweepDone(r)
    BY <2>8, <2>9, <2>10, Zenon DEF RemoveTree, SweepDone
  <2>11. CASE Clean(r) \/ Make(r) \/ PrepareFails(r) \/ Close(r)
    BY <2>8, <2>9, <2>11, Zenon DEF Clean, Make, PrepareFails, Close, Closing
  <2>12. QED
    BY <1>3, <2>1, <2>2, <2>3, <2>4, <2>5, <2>6, <2>7, <2>10, <2>11 DEF Step
<1>4. ASSUME NEW r \in Reviews, NEW w \in Workflows, Prepare(r, w)
      PROVE  rv'[q] = rv[q]
  BY <1>1, <1>4 DEF Prepare, Frames
<1>5. Tick \/ UNCHANGED vars => rv'[q] = rv[q]
  BY DEF Tick, vars
<1>6. QED
  BY <1>2, <1>3, <1>4, <1>5 DEF Next

(* What is moved is of an aged directory, whatever is moved of it first.   *)
LEMMA AgesStep ==
  ASSUME IInv, AllKnown, MovesAged, [Next]_vars
  PROVE  AllKnown' /\ MovesAged'
<1>1. /\ clock \in Nat /\ clock' \in Nat /\ clock <= clock'
      /\ \A w \in Workflows : dir[w] \in Dirs /\ dir'[w] \in Dirs
  BY ClockStep, IInvStep DEF IInv, Typed
<1>2. ASSUME NEW w \in Workflows
      PROVE  Known(dir'[w], clock')
  <2>1. Known(dir'[w], clock)
    BY KnownStep DEF AllKnown
  <2>2. QED
    BY <1>1, <2>1, AgedLater
<1>3. ASSUME NEW q \in Reviews, rv'[q].pc = "move"
      PROVE  Aged(dir'[rv'[q].entry], clock')
  <2>1. CASE rv[q].pc = "move" /\ rv'[q].entry = rv[q].entry
    <3> DEFINE e == rv[q].entry
    <3>1. e \in Workflows /\ HoldsLock(q, e)
      BY <2>1, Whereabouts DEF HoldsLock, Locks, Sweeping
    <3>2. Aged(dir[e], clock)
      BY <2>1 DEF MovesAged
    <3>3. ~ \E r \in Reviews : Stamp(r) /\ rv[r].at = e
      <4> SUFFICES ASSUME NEW r \in Reviews, Stamp(r), rv[r].at = e
                   PROVE  FALSE
        OBVIOUS
      <4>1. HoldsLock(r, e) /\ r # q
        BY <2>1 DEF Stamp, HoldsLock, Locks, Holding
      <4>2. QED
        BY <3>1, <4>1 DEF IInv, Locked
    <3>4. dir'[e].last = dir[e].last
      BY <3>1, <3>3, KnownStep
    <3>5. Aged(dir'[e], clock)
      BY <3>2, <3>4 DEF Aged
    <3>6. QED
      BY <1>1, <2>1, <3>1, <3>5, AgedLater
  <2>2. CASE /\ rv[q].pc = "decide" /\ rv'[q].entry = rv[q].entry
             /\ Stale(dir[rv[q].entry], rv[q].now)
             /\ UNCHANGED <<dir, clock>>
    <3>1. rv[q].entry \in Workflows /\ rv[q].now \in Nat /\ rv[q].now <= clock
      BY <2>2, Whereabouts, ScratchAssumption DEF IInv, Kept, SweptBy, Sweeping, Frames
    <3>2. Aged(dir[rv[q].entry], clock)
      BY <1>1, <2>2, <3>1, StaleIsAged DEF AllKnown
    <3>3. QED
      BY <2>2, <3>2
  <2>3. QED
    BY <1>3, <2>1, <2>2, MovingStep
<1>4. QED
  BY <1>2, <1>3 DEF AllKnown, MovesAged

(* What leaves the directory w in a step.                                  *)
Gone(w) == Present(dir[w]) \ Present(dir'[w])

(* An item leaves a directory by its own review or by a sweep.             *)
LEMMA GoneStep ==
  ASSUME IInv, AllKnown, MovesAged, [Next]_vars, NEW w \in Workflows, Gone(w) # {}
  PROVE  \/ /\ Gone(w) \subseteq PerRound
            /\ \E r \in Reviews :
                 rv[r].at = w /\ rv[r].pc \in {"clean", "close"} /\ rv'[r] # rv[r]
         \/ /\ dir[w].owned
            /\ dir[w].last # Never /\ clock - dir[w].last > MaxCacheAge
            /\ \A r \in Reviews : rv[r].at = w => rv[r].pc = "lock"
<1>1. dir[w] \in Dirs /\ clock # Never /\ clock \in 0 .. MaxClock
  BY ScratchAssumption DEF IInv, Typed, Never
<1>2. dir'[w] # dir[w]
  BY DEF Gone
<1>3. ASSUME NEW item \in Items, dir'[w] = [dir[w] EXCEPT !.trash = @ \ {item}]
      PROVE  FALSE
  BY <1>1, <1>3 DEF Gone, Present, Dirs
<1>4. ASSUME dir'[w] = [dir[w] EXCEPT !.owned = TRUE] \/ dir'[w] = [dir[w] EXCEPT !.used = clock, !.last = clock]
      PROVE  FALSE
  BY <1>1, <1>4 DEF Gone, Present, Dirs
<1>5. ASSUME NEW r \in Reviews, Make(r), rv[r].at = w, NEW item \in rv[r].left, dir'[w] = Made(dir[w], item)
      PROVE  FALSE
  <2>1. KeptIn(rv[r], dir[w]) /\ rv[r].pc = "make"
    BY <1>5 DEF Make, IInv, Kept, KeptBy
  <2>2. item \in PerRound \cup {"cache"}
    BY <1>5, <2>1 DEF KeptIn
  <2>3. /\ dir'[w].used = dir[w].used /\ dir[w].items \subseteq dir'[w].items
        /\ dir[w].cache # Never => dir'[w].cache # Never
    BY <1>1, <1>5, <2>2, MadeFields
  <2>4. QED
    BY <2>3 DEF Gone, Present
<1>6. ASSUME NEW item \in Items, dir'[w] = [dir[w] EXCEPT !.items = @ \ {item}]
      PROVE  Gone(w) \subseteq PerRound
  <2>1. /\ dir'[w].used = dir[w].used /\ dir'[w].cache = dir[w].cache
        /\ dir[w].items \subseteq PerRound
    BY <1>1, <1>6 DEF Dirs
  <2>2. QED
    BY <2>1 DEF Gone, Present
<1>7. ASSUME NEW r \in Reviews, MoveToTrash(r), rv[r].entry = w
      PROVE  /\ dir[w].owned
             /\ dir[w].last # Never /\ clock - dir[w].last > MaxCacheAge
             /\ \A q \in Reviews : rv[q].at = w => rv[q].pc = "lock"
  <2>1. rv[r].pc = "move" /\ SweptIn(rv[r], dir[w]) /\ Aged(dir[w], clock)
    BY <1>7 DEF MoveToTrash, IInv, Kept, SweptBy, MovesAged
  <2>2. ASSUME NEW q \in Reviews, rv[q].at = w PROVE rv[q].pc = "lock"
    <3>1. HoldsLock(r, w) /\ held[w] = r
      BY <1>7, <2>1 DEF IInv, Locked, HoldsLock, Locks, Sweeping
    <3>2. rv[r].at # w
      BY <1>7, <2>1, Whereabouts DEF Sweeping
    <3>3. q # r /\ ~ HoldsLock(q, w)
      BY <2>2, <3>1, <3>2 DEF IInv, Locked
    <3>4. rv[q] \in Frames /\ rv[q].pc # "idle"
      BY <2>2, ScratchAssumption DEF IInv, Typed, Framed, Sane
    <3>5. QED
      BY <2>2, <3>3, <3>4 DEF HoldsLock, Locks, Holding, Frames, Steps
  <2>3. QED
    BY <2>1, <2>2 DEF SweptIn, Sweeping, Aged
<1>8. ASSUME NEW r \in Reviews, Clean(r) \/ Close(r)
      PROVE  rv[r].pc \in {"clean", "close"}
  BY <1>8 DEF Clean, Close
<1>9. PICK r \in Reviews : Changes(r, w)
  BY <1>2, DirStep
<1>10. CASE MoveToTrash(r) /\ rv[r].entry = w
  BY <1>7, <1>10
<1>11. CASE ~ (MoveToTrash(r) /\ rv[r].entry = w)
  <2>1. /\ rv[r].at = w /\ rv'[r] # rv[r] /\ (Clean(r) \/ Close(r))
        /\ \E item \in Items : dir'[w] = [dir[w] EXCEPT !.items = @ \ {item}]
    BY Zenon, <1>3, <1>4, <1>5, <1>9, <1>11 DEF Changes
  <2>2. Gone(w) \subseteq PerRound
    BY Zenon, <1>6, <2>1
  <2>3. QED
    BY <1>8, <2>1, <2>2
<1>12. QED
  BY <1>10, <1>11

(* Nothing leaves a directory but by its own review, or by a sweep of a    *)
(* directory of Counterpoint's, which nobody is in, and which is known to  *)
(* be unused for too long at that moment (sweep.go, sweepEntry).           *)
THEOREM OnlyStaleIsSwept == Spec => SweepsOnlyStale
<1>1. Init => AllKnown /\ MovesAged
  BY ScratchAssumption DEF Init, AllKnown, MovesAged, Known, LastUse, Idle
<1>2. IInv /\ AllKnown /\ MovesAged /\ [Next]_vars => AllKnown' /\ MovesAged'
  BY AgesStep
<1>3. IInv /\ AllKnown /\ MovesAged /\ [Next]_vars =>
        [\A w \in Workflows :
           LET gone == Present(dir[w]) \ Present(dir'[w])
           IN  gone # {} =>
                 \/ /\ gone \subseteq PerRound
                    /\ \E r \in Reviews :
                         rv[r].at = w /\ rv[r].pc \in {"clean", "close"} /\ rv'[r] # rv[r]
                 \/ /\ dir[w].owned
                    /\ dir[w].last # Never /\ clock - dir[w].last > MaxCacheAge
                    /\ \A r \in Reviews : rv[r].at = w => rv[r].pc = "lock"]_dir
  BY GoneStep DEF Gone
<1>4. QED
  BY <1>1, <1>2, <1>3, IInvHolds, PTL DEF Spec, SweepsOnlyStale

-----------------------------------------------------------------------------
(* What is left behind.                                                    *)

Claimed == \A w \in Workflows : dir[w].items # {} => dir[w].owned

Reachable(w) ==
  /\ dir'[w].items # {} => dir'[w].owned
  /\ Undated(dir'[w]) /\ ~ Undated(dir[w]) =>
       \E r \in Reviews :
         rv[r].pc = "move" /\ rv[r].entry = w /\ dir'[w].items \subseteq rv[r].stuck

(* A step leaves no item undated that it has not tried to move.            *)
LEMMA ReachableStep ==
  ASSUME IInv, Claimed, [Next]_vars, NEW w \in Workflows
  PROVE  Reachable(w)
<1>1. dir[w] \in Dirs /\ clock # Never
  BY DEF IInv, Typed, Never
<1>2. CASE dir'[w] = dir[w]
  BY <1>2 DEF Reachable, Claimed
<1>3. ASSUME dir'[w] = [dir[w] EXCEPT !.owned = TRUE] \/ dir'[w] = [dir[w] EXCEPT !.used = clock, !.last = clock]
      PROVE  Reachable(w)
  <2>1. dir'[w].items = dir[w].items /\ (dir'[w].owned \/ dir'[w].owned = dir[w].owned)
    BY <1>1, <1>3 DEF Dirs
  <2>2. dir'[w].used # Never \/ dir'[w].used = dir[w].used
    BY <1>1, <1>3 DEF Dirs
  <2>3. QED
    BY <2>1, <2>2 DEF Reachable, Claimed, Undated
<1>4. ASSUME NEW item \in Items,
             \/ dir'[w] = [dir[w] EXCEPT !.trash = @ \ {item}]
             \/ dir'[w] = [dir[w] EXCEPT !.items = @ \ {item}]
      PROVE  Reachable(w)
  <2>1. dir'[w].items \subseteq dir[w].items /\ dir'[w].used = dir[w].used /\ dir'[w].owned = dir[w].owned
    BY <1>1, <1>4 DEF Dirs
  <2>2. QED
    BY <2>1 DEF Reachable, Claimed, Undated
<1>5. ASSUME NEW r \in Reviews, MoveToTrash(r), rv[r].entry = w, rv[r].left # {},
             NEW item \in NextMoved(rv[r].left), dir'[w] = Trashed(dir[w], item)
      PROVE  Reachable(w)
  <2>1. SweptIn(rv[r], dir[w]) /\ rv[r].pc = "move" /\ rv[r].left \in SUBSET Items
    BY <1>5, Whereabouts DEF MoveToTrash, IInv, Kept, SweptBy, Frames
  <2>2. item \in Items /\ (item = "used" => rv[r].left = {"used"})
    BY <1>5, <2>1, MovedInOrder
  <2>3. /\ dir'[w].items = dir[w].items \ {item} /\ dir'[w].owned = dir[w].owned
        /\ item # "used" => dir'[w].used = dir[w].used
    BY <1>1, <1>5, <2>2, TrashedFields
  <2>4. dir[w].items \subseteq rv[r].left \cup rv[r].stuck
    BY <2>1 DEF SweptIn
  <2>5. CASE item = "used"
    <3>1. "used" \notin dir[w].items
      BY <1>1, ScratchAssumption DEF Dirs
    <3>2. dir'[w].items \subseteq rv[r].stuck
      BY <2>2, <2>3, <2>4, <2>5, <3>1
    <3>3. QED
      BY <1>5, <2>1, <2>3, <3>2 DEF Reachable, Claimed
  <2>6. CASE item # "used"
    BY <2>3, <2>6 DEF Reachable, Claimed, Undated
  <2>7. QED
    BY <2>5, <2>6
<1>6. ASSUME NEW r \in Reviews, Make(r), rv[r].at = w, NEW item \in rv[r].left, dir'[w] = Made(dir[w], item)
      PROVE  Reachable(w)
  <2>1. KeptIn(rv[r], dir[w]) /\ rv[r].pc = "make"
    BY <1>6 DEF Make, IInv, Kept, KeptBy
  <2>2. item \in PerRound \cup {"cache"} /\ dir[w].owned /\ dir[w].used # Never
    BY <1>6, <2>1 DEF KeptIn, Holding
  <2>3. dir'[w].owned /\ dir'[w].used # Never
    BY <1>1, <1>6, <2>2, MadeFields DEF IInv, Typed
  <2>4. QED
    BY <2>3 DEF Reachable, Undated
<1>7. CASE dir'[w] # dir[w]
  <2>1. PICK r \in Reviews : Changes(r, w)
    BY <1>7, DirStep
  <2>2. QED
    BY Zenon, <1>3, <1>4, <1>5, <1>6, <2>1 DEF Changes
<1>8. QED
  BY <1>2, <1>7

(* What is left of a round stays within reach of a later sweep, except     *)
(* where it was found without a stamp or could not be moved by the sweep   *)
(* that moved the stamp (sweep.go, sweepEntry: the stamp goes last).       *)
THEOREM LeftoversStayReachable == Spec => LeftoversReachable
<1>1. Init => Claimed
  BY ScratchAssumption DEF Init, Claimed
<1>2. IInv /\ Claimed /\ [Next]_vars => Claimed'
  BY ReachableStep DEF Claimed, Reachable
<1>3. IInv /\ Claimed /\ [Next]_vars =>
        [\A w \in Workflows :
           /\ dir'[w].items # {} => dir'[w].owned
           /\ Undated(dir'[w]) /\ ~ Undated(dir[w]) =>
                \E r \in Reviews :
                  rv[r].pc = "move" /\ rv[r].entry = w /\ dir'[w].items \subseteq rv[r].stuck]_dir
  BY ReachableStep DEF Reachable
<1>4. QED
  BY <1>1, <1>2, <1>3, IInvHolds, PTL DEF Spec, LeftoversReachable
=============================================================================
