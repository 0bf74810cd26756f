------------------------------- MODULE Scratch -------------------------------
(***************************************************************************)
(* Disposable checkouts and the sweep of stale build caches:               *)
(* internal/scratch/scratch.go and sweep.go.                               *)
(*                                                                         *)
(* Each process is a build-capable review of some workflow: it locks the   *)
(* workflow's scratch directory, stamps it, sweeps the directories of the  *)
(* other workflows, replaces leftovers of a crashed round, builds the      *)
(* checkout, is used by the reviewer, and removes the checkout.  Processes *)
(* run concurrently, are cancelled, and die at any step; a death releases  *)
(* their locks and nothing else.                                           *)
(*                                                                         *)
(* A directory tree is one item, since the sweep walks a tree only after   *)
(* renaming it to trash.  Trash is told apart only by the item it was.     *)
(***************************************************************************)
EXTENDS Integers

CONSTANTS
  Reviews,      \* the processes
  Workflows,
  Nobody,
  PerRound,     \* the items removed after each round: checkout, tmp, hooks
  Found,        \* the directories that may be in the root at first
  MaxCacheAge,  \* in ticks of the clock
  MaxClock      \* bound on the clock

VARIABLES
  clock,
  dir,   \* the scratch directory of each workflow
  held,  \* the review that holds the lock of a directory
  rv     \* the frame of each review

vars == <<clock, dir, held, rv>>

-----------------------------------------------------------------------------
(* Directories.                                                            *)

Never == -1

Items == PerRound \cup {"cache", "used"}

(* owned: the lock file is there.  used and cache hold modification times. *)
(* links: a link is there instead of the item.  last is history: when the  *)
(* directory was last used, swept or not.                                  *)
Dirs == [owned : BOOLEAN, used : Never .. MaxClock, cache : Never .. MaxClock,
         items : SUBSET PerRound, trash : SUBSET Items, links : SUBSET (Items \ {"used"}),
         last : Never .. MaxClock]

(* The stamp, or the age of the cache in a directory from before stamps.   *)
LastUse(d) == IF d.used # Never THEN d.used ELSE d.cache

ASSUME ScratchAssumption ==
  /\ Nobody \notin Reviews \cup Workflows
  /\ PerRound \cap {"cache", "used"} = {}
  /\ Found \subseteq Dirs
  /\ \A d \in Found :
       /\ d.trash = {}
       /\ d.items # {} => d.owned
       /\ "cache" \in d.links => d.cache = Never
       /\ d.last = LastUse(d)
  /\ MaxCacheAge \in Nat
  /\ MaxClock \in Nat

Empty == [owned |-> FALSE, used |-> Never, cache |-> Never, items |-> {}, trash |-> {},
          links |-> {}, last |-> Never]

Present(d) ==
  d.items \cup (IF d.cache # Never THEN {"cache"} ELSE {})
          \cup (IF d.used # Never THEN {"used"} ELSE {})

Trashed(d, item) ==
  [d EXCEPT !.cache = IF item = "cache" THEN Never ELSE @,
            !.used  = IF item = "used" THEN Never ELSE @,
            !.items = @ \ {item},
            !.trash = @ \cup {item}]

Stale(d, now) == LastUse(d) # Never /\ now - LastUse(d) > MaxCacheAge

-----------------------------------------------------------------------------
(* Frames.                                                                 *)

Steps == {"idle", "lock", "stamp", "sweep", "try", "decide", "move", "empty",
          "clean", "make", "use", "close"}

Holding == {"stamp", "sweep", "try", "decide", "move", "empty", "clean", "make", "use", "close"}

Sweeping == {"decide", "move", "empty"}

(* stuck is history: what of the entry a rename has failed for.            *)
Frames == [pc : Steps, at : Workflows \cup {Nobody}, live : BOOLEAN, now : 0 .. MaxClock,
           todo : SUBSET Workflows, entry : Workflows \cup {Nobody}, left : SUBSET Items,
           stuck : SUBSET Items]

Idle == [pc |-> "idle", at |-> Nobody, live |-> TRUE, now |-> 0,
         todo |-> {}, entry |-> Nobody, left |-> {}, stuck |-> {}]

Goto(r, step, left) == rv' = [rv EXCEPT ![r].pc = step, ![r].left = left]

ReleaseNothing(w) == UNCHANGED held

Release(w) == held' = [held EXCEPT ![w] = Nobody]

Init ==
  /\ clock = 0
  /\ dir \in [Workflows -> Found]
  /\ held = [w \in Workflows |-> Nobody]
  /\ rv = [r \in Reviews |-> Idle]

-----------------------------------------------------------------------------
(* Prepare, up to the sweep.                                               *)

(* The workflow lock lets one review of a workflow in.                     *)
Prepare(r, w) ==
  /\ rv[r].pc = "idle"
  /\ \A q \in Reviews : rv[q].at # w
  /\ dir' = [dir EXCEPT ![w].owned = TRUE]
  /\ rv' = [rv EXCEPT ![r].pc = "lock", ![r].at = w]
  /\ UNCHANGED <<clock, held>>

AcquireLock(r) ==
  LET w == rv[r].at
  IN  /\ rv[r].pc = "lock"
      /\ held[w] = Nobody
      /\ held' = [held EXCEPT ![w] = r]
      /\ Goto(r, "stamp", {})
      /\ UNCHANGED <<clock, dir>>

(* ErrLocked after LockWait, or the end of the context.                    *)
LockRefused(r) ==
  /\ rv[r].pc = "lock"
  /\ held[rv[r].at] # Nobody \/ ~ rv[r].live
  /\ rv' = [rv EXCEPT ![r] = Idle]
  /\ UNCHANGED <<clock, dir, held>>

(* The stamp, and the time the sweep judges by.                            *)
Stamp(r) ==
  /\ rv[r].pc = "stamp"
  /\ dir' = [dir EXCEPT ![rv[r].at].used = clock, ![rv[r].at].last = clock]
  /\ rv' = [rv EXCEPT ![r].pc = "sweep", ![r].now = clock,
                      ![r].todo = Workflows \ {rv[r].at}]
  /\ UNCHANGED <<clock, held>>

StampFails(r) ==
  /\ rv[r].pc = "stamp"
  /\ rv' = [rv EXCEPT ![r] = Idle]
  /\ Release(rv[r].at)
  /\ UNCHANGED <<clock, dir>>

-----------------------------------------------------------------------------
(* The sweep.                                                              *)

Owned(e) == dir[e].owned

Judged(e, now) == Owned(e) /\ (dir[e].trash # {} \/ Stale(dir[e], now))

(* Judged without the lock, so the verdict may be stale when it is used.   *)
SweepEntry(r) ==
  /\ rv[r].pc = "sweep"
  /\ rv[r].live
  /\ \E e \in rv[r].todo :
       rv' = [rv EXCEPT ![r].todo = @ \ {e},
                        ![r].pc = IF Judged(e, rv[r].now) THEN "try" ELSE "sweep",
                        ![r].entry = IF Judged(e, rv[r].now) THEN e ELSE Nobody]
  /\ UNCHANGED <<clock, dir, held>>

TryLockWaiting(r) ==
  /\ held[rv[r].entry] = Nobody
  /\ held' = [held EXCEPT ![rv[r].entry] = r]
  /\ rv' = [rv EXCEPT ![r].pc = "decide"]

TryLockAnyway(r) ==
  /\ held' = [held EXCEPT ![rv[r].entry] = r]
  /\ rv' = [rv EXCEPT ![r].pc = "decide"]

(* Never waited for: a directory in use elsewhere is skipped.              *)
TryLock(r) ==
  IF held[rv[r].entry] = Nobody
  THEN /\ held' = [held EXCEPT ![rv[r].entry] = r]
       /\ rv' = [rv EXCEPT ![r].pc = "decide"]
  ELSE /\ rv' = [rv EXCEPT ![r].pc = "sweep", ![r].entry = Nobody]
       /\ UNCHANGED held

TryEntry(r) ==
  /\ rv[r].pc = "try"
  /\ TryLock(r)
  /\ UNCHANGED <<clock, dir>>

AlreadyDecided(e, now) == TRUE

StaleUnderLock(e, now) == Stale(dir[e], now)

(* The second look, under the lock.                                        *)
Decide(r) ==
  LET e == rv[r].entry
  IN  /\ rv[r].pc = "decide"
      /\ IF StaleUnderLock(e, rv[r].now)
         THEN Goto(r, "move", Present(dir[e]))
         ELSE Goto(r, "empty", dir[e].trash)
      /\ UNCHANGED <<clock, dir, held>>

StampFirst(left) == IF "used" \in left THEN {"used"} ELSE left

(* The cache first and the stamp last.                                     *)
NextMoved(left) ==
  IF "cache" \in left THEN {"cache"} ELSE IF left = {"used"} THEN left ELSE left \ {"used"}

(* An item that cannot be renamed stays, and the next one is tried.        *)
MoveToTrash(r) ==
  LET e == rv[r].entry
  IN  /\ rv[r].pc = "move"
      /\ IF rv[r].left = {}
         THEN Goto(r, "empty", dir[e].trash) /\ UNCHANGED dir
         ELSE \E item \in NextMoved(rv[r].left) :
                \/ /\ dir' = [dir EXCEPT ![e] = Trashed(@, item)]
                   /\ Goto(r, "move", rv[r].left \ {item})
                \/ /\ rv' = [rv EXCEPT ![r].left = @ \ {item}, ![r].stuck = @ \cup {item}]
                   /\ UNCHANGED dir
      /\ UNCHANGED <<clock, held>>

(* A tree that cannot be removed, or is on another device, stays in trash. *)
RemoveTree(r) ==
  LET e == rv[r].entry
  IN  /\ rv[r].pc = "empty"
      /\ rv[r].live
      /\ \E item \in rv[r].left :
           /\ \/ dir' = [dir EXCEPT ![e].trash = @ \ {item}]
              \/ UNCHANGED dir
           /\ Goto(r, "empty", rv[r].left \ {item})
      /\ UNCHANGED <<clock, held>>

EntryDone(r) ==
  /\ rv[r].pc = "empty"
  /\ rv[r].left = {} \/ ~ rv[r].live
  /\ Release(rv[r].entry)
  /\ rv' = [rv EXCEPT ![r].pc = "sweep", ![r].entry = Nobody, ![r].left = {}, ![r].stuck = {}]
  /\ UNCHANGED <<clock, dir>>

(* The context is looked at once more after the sweep; when it has ended   *)
(* leftovers are kept for the next round.                                  *)
SweepDone(r) ==
  LET w == rv[r].at
  IN  /\ rv[r].pc = "sweep"
      /\ rv[r].todo = {} \/ ~ rv[r].live
      /\ IF rv[r].live
         THEN Goto(r, "clean", dir[w].items) /\ UNCHANGED held
         ELSE rv' = [rv EXCEPT ![r] = Idle] /\ Release(w)
      /\ UNCHANGED <<clock, dir>>

-----------------------------------------------------------------------------
(* The checkout.                                                           *)

Closing(r) == Goto(r, "close", dir[rv[r].at].items)

(* A link where an item of Counterpoint's belongs is refused.              *)
Clean(r) ==
  LET w == rv[r].at
  IN  /\ rv[r].pc = "clean"
      /\ \/ /\ dir[w].links \cap PerRound # {}
            /\ Closing(r)
            /\ UNCHANGED dir
         \/ \E item \in rv[r].left :
              /\ dir' = [dir EXCEPT ![w].items = @ \ {item}]
              /\ Goto(r, "clean", rv[r].left \ {item})
         \/ /\ rv[r].left = {}
            /\ dir[w].links \cap PerRound = {}
            /\ Goto(r, "make", PerRound \cup {"cache"})
            /\ UNCHANGED dir
      /\ UNCHANGED <<clock, held>>

(* A cache that is there is kept.                                          *)
Made(d, item) ==
  IF item # "cache" THEN [d EXCEPT !.items = @ \cup {item}]
  ELSE IF d.cache = Never THEN [d EXCEPT !.cache = clock] ELSE d

(* The hooks and temp directories, the cache, and last the clone.          *)
Make(r) ==
  LET w == rv[r].at
  IN  /\ rv[r].pc = "make"
      /\ IF rv[r].left = {}
         THEN Goto(r, "use", {}) /\ UNCHANGED dir
         ELSE \E item \in rv[r].left :
                /\ item \notin dir[w].links
                /\ dir' = [dir EXCEPT ![w] = Made(@, item)]
                /\ Goto(r, "make", rv[r].left \ {item})
      /\ UNCHANGED <<clock, held>>

(* Leftovers that cannot be removed, a linked cache, a failed clone.       *)
PrepareFails(r) ==
  /\ rv[r].pc \in {"clean", "make"}
  /\ Closing(r)
  /\ UNCHANGED <<clock, dir, held>>

ReviewEnds(r) ==
  /\ rv[r].pc = "use"
  /\ Closing(r)
  /\ UNCHANGED <<clock, dir, held>>

(* Close goes on after an item it could not remove.                        *)
Close(r) ==
  LET w == rv[r].at
  IN  /\ rv[r].pc = "close"
      /\ IF rv[r].left = {}
         THEN /\ rv' = [rv EXCEPT ![r] = Idle]
              /\ Release(w)
              /\ UNCHANGED dir
         ELSE \E item \in rv[r].left :
                /\ \/ dir' = [dir EXCEPT ![w].items = @ \ {item}]
                   \/ UNCHANGED dir
                /\ Goto(r, "close", rv[r].left \ {item})
                /\ UNCHANGED held
      /\ UNCHANGED clock

-----------------------------------------------------------------------------
(* The environment.                                                        *)

ContextEnds(r) ==
  /\ rv[r].pc # "idle"
  /\ rv[r].live
  /\ rv' = [rv EXCEPT ![r].live = FALSE]
  /\ UNCHANGED <<clock, dir, held>>

Crash(r) ==
  /\ rv[r].pc # "idle"
  /\ rv' = [rv EXCEPT ![r] = Idle]
  /\ held' = [w \in Workflows |-> IF held[w] = r THEN Nobody ELSE held[w]]
  /\ UNCHANGED <<clock, dir>>

Tick ==
  /\ clock < MaxClock
  /\ clock' = clock + 1
  /\ UNCHANGED <<dir, held, rv>>

-----------------------------------------------------------------------------

Step(r) ==
  \/ AcquireLock(r) \/ LockRefused(r) \/ Stamp(r) \/ StampFails(r)
  \/ SweepEntry(r) \/ TryEntry(r) \/ Decide(r) \/ MoveToTrash(r) \/ RemoveTree(r)
  \/ EntryDone(r) \/ SweepDone(r)
  \/ Clean(r) \/ Make(r) \/ PrepareFails(r) \/ Close(r)

Next ==
  \/ Tick
  \/ \E r \in Reviews :
       \/ \E w \in Workflows : Prepare(r, w)
       \/ Step(r) \/ ReviewEnds(r) \/ ContextEnds(r) \/ Crash(r)

Spec == Init /\ [][Next]_vars

(* Every process is scheduled, and AcquireLock gives up after its wait; a  *)
(* review may be used forever.                                             *)
FairSpec == Spec /\ \A r \in Reviews : WF_vars(Step(r))

-----------------------------------------------------------------------------
(* Properties.                                                             *)

(* The types, and the locks: a review holds the lock of its own directory  *)
(* from AcquireLock to its return, that of an entry while it sweeps it.    *)
TypeOK ==
  /\ clock \in 0 .. MaxClock
  /\ dir \in [Workflows -> Dirs]
  /\ held \in [Workflows -> Reviews \cup {Nobody}]
  /\ rv \in [Reviews -> Frames]
  /\ \A r \in Reviews, w \in Workflows :
       held[w] = r <=> \/ rv[r].at = w /\ rv[r].pc \in Holding
                       \/ rv[r].entry = w /\ rv[r].pc \in Sweeping

(* "A cache in use by a review in another process is active state for the  *)
(* length of that review": while a reviewer works, its checkout, its temp  *)
(* directory and its cache are all in place, whoever else prepares, sweeps *)
(* or dies (scratch.go, Prepare; sweep.go, sweepEntry).                    *)
InUseKept ==
  \A r \in Reviews :
    rv[r].pc = "use" =>
      LET d == dir[rv[r].at] IN d.items = PerRound /\ d.cache # Never /\ d.used # Never

(* Whatever leaves a directory is removed by the review of that workflow   *)
(* itself, or is an item swept from a directory of Counterpoint's, in      *)
(* nobody's use, and known to be unused for longer than MaxCacheAge at the *)
(* moment it leaves, although the sweep judged both before and goes on     *)
(* when the item it judged the age by is gone (sweep.go, sweepEntry).      *)
SweepsOnlyStale ==
  [][\A w \in Workflows :
       LET gone == Present(dir[w]) \ Present(dir'[w])
       IN  gone # {} =>
             \/ /\ gone \subseteq PerRound
                /\ \E r \in Reviews :
                     rv[r].at = w /\ rv[r].pc \in {"clean", "close"} /\ rv'[r] # rv[r]
             \/ /\ dir[w].owned
                /\ dir[w].last # Never /\ clock - dir[w].last > MaxCacheAge
                /\ \A r \in Reviews : rv[r].at = w => rv[r].pc = "lock"]_dir

(* No later sweep finds these.                                             *)
Undated(d) == d.items # {} /\ d.used = Never

(* What a crash, a cancellation or a half-done sweep leaves of a round     *)
(* stays within reach of a later sweep: it is in a directory of            *)
(* Counterpoint's, with a stamp to be judged by, except where it was found *)
(* without one or where the sweep that moved the stamp had tried to move   *)
(* that very item and failed; only the workflow's own next round finds     *)
(* that (scratch.go, Prepare; sweep.go, sweepEntry: the stamp goes last).  *)
LeftoversReachable ==
  [][\A w \in Workflows :
       /\ dir'[w].items # {} => dir'[w].owned
       /\ Undated(dir'[w]) /\ ~ Undated(dir[w]) =>
            \E r \in Reviews :
              rv[r].pc = "move" /\ rv[r].entry = w /\ dir'[w].items \subseteq rv[r].stuck]_dir

(* "Locks are never waited on out of order": two reviews that prepare and  *)
(* sweep each other's directories do not wait for each other, nor for a    *)
(* review that goes on (scratch.go, Prepare; sweep.go, sweepEntry).        *)
PrepareEnds ==
  \A r \in Reviews : rv[r].pc = "lock" ~> rv[r].pc \in {"use", "idle"}
=============================================================================
