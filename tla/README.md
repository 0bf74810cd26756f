# Counterpoint in TLA+

Counterpoint is an MCP server that lets a coding agent have its branch reviewed by Codex. A
call of its one tool, `review`, validates a commit in a local Git repository, resumes
the workflow's Codex thread in an app-server child of its own, runs one turn, records the
completed round in a state file shared with every other Counterpoint process of the machine,
and answers with the review text. This directory holds TLA+ models of that code, the TLC
configurations that check them, and proofs for TLAPS.

Paths below are relative to the repository. `PROJECT.json` maps every definition to the lines
it models and lists the hazards the properties are aimed at.

## Parts of the system

### Components

| Component | Code | State | Operations | Model |
|---|---|---|---|---|
| Review service | `internal/review/review.go` | one frame per call; the workflow lock | `Service.review` with its deferred releases; `loadWorkflow`, `saveCompleted`, `saveEvictingHistory` | `ReviewService`, `ReviewRegistry` |
| State store | `internal/state/state.go`, `history.go`, `lock.go` | the state file, `Store.loaded`, two kinds of advisory locks | `Load`, `Save`, `writeAtomic`, `RetainHistory`, `InvalidHistory`, `AcquireLock` | `ReviewService`, `Ledger` |
| App-server connection | `internal/appserver/conn.go` | outbox, pending calls, exit reason, three goroutines, a child | `call`, `dispatch`, `writeLoop`, `readLoop`, `terminate`, `shutdown`, `close` | `Connection`, `Warnings` |
| Turn watcher, `Client.Review` | `internal/appserver/client.go` | what has been collected of a turn; the caller's place in `Review` | `handle`, `setTurn`, `awaitTurn`, `interrupt`, `result` | `TurnWatcher` |
| Thread setup | `internal/review/review.go`, `internal/appserver/client.go` | the thread's archival state, its writer, warnings | `StartThread`, `SetThreadName`, `ResumeThread`, `UnarchiveThread`, `Start` | `ThreadSetup`, `Warnings` |
| Scratch checkouts, cache sweep | `internal/scratch/*.go` | one directory per workflow with lock, stamp, cache, leftovers, trash | `Prepare`, `sweep`, `Close` | `Scratch` |
| Git access | `internal/gitrepo/*.go` | none of its own | `ValidateTarget`, `PrimaryBranch`, `ReadInstructions`, `CloneDetached` | `TargetValidation` |
| MCP server | `internal/mcpserver/server.go` | one watch per call, one line buffer | `watchCall`, `newServer`, `Serve`, `boundedLineReader` | `CallWatch`, `LineReader`, `McpServer` |
| Prompt, wire types, configuration, command | `internal/review/prompt.go`, `appserver/wire.go`, `internal/config`, `cmd/counterpoint` | none shared | pure functions, start-up | not modelled |

### How they interact

* Calls of one server share its `Store` and nothing else; calls of different servers share only
  the state file, the lock files, the scratch root and, through the app-server, the Codex
  threads. There is no message between servers.
* A call holds its *workflow lock* from before the load to after its child has been closed.
  The *state lock* is held twice, briefly: while the record is copied, and while the completed
  round is merged into a freshly loaded file. The review runs in between, without it.
* A call starts one app-server child and talks to it over stdin and stdout through a
  connection: a reader goroutine, a writer goroutine and the caller. The reader calls
  notification handlers (the turn watcher) and answers the child's own requests.
* A build-capable review also holds the lock of its scratch directory, and while it prepares
  tries the locks of the other ones.
* The MCP server reads the client's lines through the bounded reader and watches each call from
  a goroutine of its own, which ends the call's context when the client may have given up.
* Before a review, and under its workflow lock, Git is asked one question after another about a
  repository in which the author may go on working.
* Outside: the human (archives threads in the Codex app, edits the state file), the MCP client
  (cancels, goes away, gives up silently), the author, older Counterpoints that hold the state
  lock for a whole review.

### What is hard about it

* *Interleaving.* Everything a call learnt from the file is minutes old when it saves. Three
  goroutines race to end a connection. The human acts between any two requests of a setup.
* *Failure.* A server can die between any two steps; its child lives on for a while and still
  holds the writer of its thread. A sweep can die between two renames. The directory sync can
  fail when the rename has already happened.
* *Ordering.* Notifications arrive before, with or after the answer to the request they belong
  to. The deferred releases must run innermost first.
* *Time.* Lock waits, graces, budgets and cancellations race with the events they wait for. A
  sleep of the machine may fall between any two steps, and nobody's clock agrees on it.
* *Bounds.* The state file, the ledger, the outbox, the collected text and the warnings are
  bounded; each bound has an error path of its own.

### What makes each component correct

* *Review service*: a call answers a new review only for a round it recorded; the record it
  copied is current when it saves; a replay returns the newest round; rounds of a workflow are
  numbered without gaps and stay on one thread; every call ends.
* *State store*: what is saved can be loaded; eviction takes no more than needed and never
  keeps a review from being saved; a file a call found undecodable is not replaced by it.
* *Connection*: the reader depends on no caller; the first reason for the end is the one
  reported; no question of the child is dropped; calls and `close` return.
* *Turn watcher*: text and usage are this turn's and complete; the end is processed once; a
  finished turn is not thrown away; `Review` returns.
* *Thread setup*: a turn runs only on an active thread of this child; a thread the human has
  archived or let go is taken over; every warning is reported in order or counted.
* *Scratch*: nothing of a directory in use is taken; a sweep takes only from directories that
  have been unused for too long; whatever a crash leaves, and could be moved, can be found by a
  later sweep; reviews do not wait for each other.
* *Git access*: with an author who keeps still a target is accepted exactly when it should be;
  with one who does not, what is said of an accepted commit was true under the lock.
* *MCP server*: the SDK gets the client's lines whole, once and in order, and none that is too
  long; a client that stays awake never gives up first; a call nobody waits for is ended.

## Modules

```
ReviewRegistry <= ReviewService -- Ledger        the service implements the registry
Connection      TurnWatcher      Scratch         the components below a call
ThreadSetup  -- Warnings                         the setup, with the connection's warnings
TargetValidation                                 the Git commands of one call
McpServer    -- LineReader, CallWatch            the two halves of the server, composed
<module>Proofs                                   theorems; MC<module>: an instance for TLC
```

**`Ledger`** has the pure part of the store: a history record, its injected bytes, the
retention loop of `RetainHistory`, `InvalidHistory`, the size of the encoded file, and the
choice of a victim in `newEvictionPlan`. Texts are their lengths; the two quoting bounds and
the JSON framing are constants. The loop is given by where it stops, which is a theorem of
`LedgerProofs` and not a recursion.

**`ReviewService`** is `Service.review`, one action per step that reads or changes something
shared. `pc` is the call's position, and its values name the region of the function; `wf`,
`done` and `st` are the local variables of the same names (the copy made at the start, the
completed round, the state decoded for the save). `file`, `readable`, `wlock`, `slock` and
`loaded` are shared. An early return is the action `Return`, which goes to the release that is
deferred at that point. `Crash` forgets the frames of one server, frees its locks and turns the
threads of its children into `orphans`. `OlderBegins`, `OlderEnds` and `HandEdit` are the two
writers that take no workflow lock. An older Counterpoint takes the state lock; the human's editor
takes none, so `HandEdit` may fall between any two steps, and `overtaken` is history: the file was
edited while a program held the state lock, perhaps after it had read it. Git and the turn are a
nondeterministic outcome.

**`ReviewRegistry`** is what the tool promises: one register per workflow with the newest
completed round, and calls that take effect at one instant or not at all. `ReviewService`
implements it with `Latest` and `CallOf` as the refinement mapping: a new round takes effect at
the rename, a replay when the request validates to the stored hash.

**`Connection`** has the writer, the reader, one sequential caller and the child. `reader` and
`writer` are records whose `step` is a place in `readLoop` or `writeLoop`; a channel of capacity
one is a field of `ch`. The two halves of `dispatch` (removal from `pending`, then delivery) are
separate steps, since the caller runs between them. The child answers any id, any number of
times, asks questions, stops reading, closes either pipe, and exits.

**`TurnWatcher`** has `turnWatcher.handle` as a function of a watcher and an event, the reader
that applies it, and `Review` with its selects: an action that may take any channel that is
ready. `watcher` is what `turnWatcher` has collected; a text is its length, and past the limit
only that it overflowed. The two line ends before a further message are a piece of their own, which
counts and may be the one that does not fit. `log` is a history variable: the events the child
wrote, from which the properties compute what the result should be. The handler runs under the watcher's mutex and is one step.

**`ThreadSetup`** takes apart the one setup step of `ReviewService`: the requests of `client.go`,
each sent, handled by the app-server and answered in three steps, the archive handoff of
`review.go`, the human, and the ends of the setup context and of the connection in between. It
goes on through the turn to the answer, since the warnings do: the child's questions, declined
with a warning each, and the warnings the bridge adds, up to the checkout that was changed.

**`Warnings`** has `recordWarning`, `takeWarnings` and `AppendWarning`. A warning is what it is
about and its size; the connection's list counts what it leaves out.

**`Scratch`** has `Prepare`, the sweep and `Close` for several reviews at once. A directory is
a record: the lock file's presence, the stamp's and the cache's times, leftovers, trash, links.
A verdict reached without the lock, the second look under it, every rename to trash and every
removal are steps of their own, and each may fail. `last` and `stuck` are history: when a
directory was last used, even when nothing in it tells any more, and what of it the sweep in
progress has failed to move.

**`TargetValidation`** is `ValidateTarget` and what surrounds it in `Service.review`: `pc` names
the Git command that runs next, each a step that sees the repository as it is then. A repository
has its refs, HEAD, origin's HEAD, a dirty flag and its objects; the history is a constant. The
author moves and deletes refs, checks out, edits, and collects garbage; any command may fail for
a reason of its own. `since` is a history variable: the tips and HEADs there were since the
workflow lock was taken, and what the author has left alone.

**`LineReader`** is `boundedLineReader`: `ReadSlice` with its buffer of `Buffer` bytes, `nextLine`
and `Read`, against a client that writes lines and stops, with or without a last newline. A byte
is its line and its place in it, so that a byte served twice or not at all is seen.

**`CallWatch`** is the handler of `newServer` and the goroutine of `watchCall`, on a clock that
counts awake and sleeping time. The watcher is late by at most `Late` at each step; `Sleep` may
come between any two. The client's own timer is external: it gives up, silently, after `Idle`
without a sign. `lastHeard`, `slept` and `blurred` are history variables (what the client last
heard, the time slept since, and the part of it that fell between a receipt and its mark).

**`McpServer`** composes the two: a call that was received starts the handler, and the end of
the session, which may be a line that is too long, ends the call's context.

## What is checked

TLC, deadlock included unless said otherwise. Each passing run's properties were each broken by
a plausible change of the code's definition (the mutants of `PROJECT.json`); a mutant's form is
defined in front of the definition it would replace and nothing else uses it.

| Run | Instance | States | Shows |
|---|---|---|---|
| `service_concurrent` | 2 servers, 1 call each at a time, 2 workflows, 2 requests, 4 threads, 3 rounds, 1 crash | 668 k | `CopyCurrent`, `AnswerRecorded`, `WriterHandedOver`, and the refinement `RegistrySpec` |
| `service_edits` | 1 server, 2 calls, 2 workflows, 2 threads, 3 rounds, 2 changes by others | 3.8 M | `StoreLoaded`, `RecordsOnlySuperseded`, `EvictedStaysEvicted`, `BrokenFileKept` |
| `service_liveness` | 1 server, 2 calls, 1 workflow, 2 rounds, 1 crash, 1 change by others; fair | 275 k | `CallsEnd` |
| `service_eviction` | 1 call after another, 2 workflows, 4 rounds, texts of 1 to 3 around the quoting bounds, a limit a few records reach | 547 k | `TypeOK`, `SavedRecordsValid`, `EvictedOnlyWhenTooLarge`, `HistoryNeverBlocksSave` |
| `connection` | 2 calls, every queue and pipe of 1, 1 question of the child; fair | 1.3 M | `TypeOK`, `ReaderNeverBlocks`, `RequestsAnswered`, `ReasonWins`, `WriterGoneReleasesCall`, `CloseReturns` |
| `turn_text` | 5 events of 2 turns: deltas, messages, review items, ends; a limit of 4 | 9.7 M | `TextIsTheTurns` |
| `turn_ends` | 4 events of 2 turns: starts, ends, usage; answers of 3 kinds; fair | 662 k | `DoneClosedOnce`, `UsageIsTheTurns`, `CompletedTurnReturned`, `ReviewReturns` |
| `thread_setup` | 3 actions of the human, 2 questions of the child, 2 warnings of 4 bytes | 62 k | `TypeOK`, `TurnOnOwnThread`, `HandoffTaken`, `WarningsAccounted` |
| `scratch` | 2 reviews, 2 workflows, 6 kinds of directory to start from, 1 tick; fair | 677 k | `TypeOK`, `InUseKept`, `SweepsOnlyStale`, `LeftoversReachable`, `PrepareEnds` |
| `mcp_server` | 2 lines, a limit of 2 bytes; an interval of 3, a client timeout of 9, delays of 1, sleeps of 2 or 7 | 2.34 M | `TypeOK`, `ClientOutlived`, `ServedLines`, `SilentCallEnds` |
| `target_validation` | 6 commits, 3 branches, 4 repositories, 3 requests, 3 records, 2 acts of the author | 1.74 M | `TypeOK`, `UndisturbedIsExact`, `TargetHolds` |

Deadlock is not checked where the system ends for good: a connection that was closed, a review
that returned, a setup that is over, a target that was accepted or refused, a session that
ended. The runs of `ReviewService` and `Scratch` check it.

### Why these bounds are enough

* *Two calls* are enough for every pairwise race of the service; the locks admit one holder, so
  a third call waits like the second. They are in servers of their own in one run and share
  the store in another, which is the only difference a server makes.
* *Rounds*: a first round starts the thread, a second makes the first ledger record, a third
  has two to evict from; the fourth of `service_eviction` exceeds the ledger's bound of two, or
  continues from a ledger that was cut.
* *Sizes*: the ledger bounds are 2 records and 4 bytes with a quoting bound of 2, and texts
  have lengths below, at and above it. `StateLimit` is 7 where two workflows compete, so one
  call's save evicts the other's records; 3 in `service_liveness`, where any record of history
  is too much; 9 in `service_eviction`.
* *Queues of one message* are full as soon as two parties use them; the second call of a
  connection is there for answers that arrive for the first.
* *Events*: four are a start, a collected item, an end and one thing after it; with five there is
  a second message. Messages are of 0, 1 and 3 bytes and the limit is 4, so that two of one byte
  fit with their separator, an empty one fits after one of one, and after one of 3 the separator
  itself is refused, or the message after it.
* *A clock of one tick* with `MaxCacheAge` 0 has the two ages the sweep tells apart; the stamp
  is the clock's value, so a directory is fresh or stale and can change from either to the
  other while a sweep runs. One per-round item is enough: the sweep treats checkout, temp and
  hooks alike.
* *The human* acts three times: archives, and undoes or spoils the handoff once it has begun.
  Two warnings fill the list by number, and warnings of 1 and 3 bytes by size first or not.
* *The author* acts twice, which is enough to move something away and back, to take away the
  object that was resolved, and to be seen by two different commands in two states.
* *Times*: an interval of 3 with delays below half of it, a client timeout of three intervals
  (the code's is sixty), a short sleep and one that reaches the timeout; the clock runs long
  enough for a heartbeat, a long sleep and the tick after it. While a call runs the reader is
  looked at after one line only (`CONSTRAINT Sequential`): the two halves share nothing but the
  end of the session.
* *Lines*: the longest that fits and one byte more, through a buffer that needs two slices.
* *Threads*: one per workflow in `service_edits`, where a thread that no record and no frame knows
  any more may be named again; more elsewhere.
* Thread ids, request hashes and calls in servers of their own are only compared for equality,
  so they are symmetric; runs with liveness use no symmetry.

### Fairness

* `ReviewService`: weak fairness of each call's steps. Every wait in a call is bounded:
  `AcquireLock` by `LockWait` and the context, setup and turn by their timeouts, `close` by its
  graces. Nothing is assumed of the human, the client, an orphan or an older Counterpoint.
* `Connection`: weak fairness of the goroutines, which the Go scheduler runs, of the caller
  (its grace timer included), and of the exit of a child that was *killed*. Nothing else is
  assumed of the child, and no context is assumed to end.
* `TurnWatcher`: weak fairness of `Review`. Nothing is assumed of the child.
* `Scratch`: weak fairness of each review's steps up to the use of the checkout. A reviewer may
  use its checkout for ever, so nobody may depend on it.
* `McpServer`, `TargetValidation` and `ThreadSetup` are checked for safety only: what ends a call
  there is a step that must not come too late, which is an action property.

### Where code and words differ

These were met while modelling. They are questions of wording, and the models have the behaviour:

* `internal/state/state.go:7` and `docs/SPEC.md:280` say that a file that fails to parse is never
  overwritten, `docs/SPEC.md:936` that no save clobbers another writer's record, and `review.go:575`
  that any difference of this workflow's record refuses the save. All hold of what the Load of the
  final save reads. Between that Load and the rename (`state.go:317`) the file is not looked at
  again: a human's editor, which takes no lock, can save in between, and what it saved is
  replaced. `RecordsOnlySuperseded` and `BrokenFileKept` except that window (`overtaken`) and no other.
* `docs/SPEC.md:380` calls ending the child inside the workflow lock the ownership handoff between
  processes. A server that dies takes its locks with it and leaves its child; until that child has
  exited too, the next round finds the writer held and fails. `WriterHandedOver` names the case.
* `client.go:471` gives a finished turn priority over the end of the connection, and `awaitTurn`
  does. Before it, the select of `call` may take the end of the connection over an answer to
  `review/start` that was dispatched before it, together with the whole turn; Review then returns
  the connection's error. The comment does not speak of that wait, nor does `CompletedTurnReturned`.
* `docs/SPEC.md:533` says that an unused workflow loses its remnants along with its stamp, and that
  a failed removal does not stop the sweep. Nor does a failed rename (`sweep.go:248`): the stamp
  is moved all the same, and what could not be moved is then without a date. No later sweep finds
  it; the workflow's own next round replaces it. `LeftoversReachable` says when that happens.
* `review.go:88` says that cancellation records nothing. A call cancelled when its final save
  already holds the state lock records its round; the client's retry is then a replay.
* `review.go:515` reports "state was not saved" also when the rename has happened and only the
  directory sync failed (`state.go:317`).
* `docs/SPEC.md:657` says an aborted call never changes a thread's archival state. The setup
  context is checked before `thread/unarchive` is sent; when it ends while the request is under
  way the thread is out of the archive and the call aborted.
* `docs/SPEC.md:144` promises one final entry with the count of omitted warnings. A warning
  `AppendWarning` refuses is not counted, and one it accepts comes after the count. A successful
  unarchive (`docs/SPEC.md:658`) is a warning like others and can fall to the bound; warnings of
  questions the child asks after its turn are in no result.
* `docs/SPEC.md:187` says the files a read-only reviewer reads are those of the commit. They
  are at the moment of `requireClean`; the worktree stays the author's while the review runs.
* `docs/SPEC.md:534` says an unused workflow loses its cache and its leftovers. In a directory
  from before stamps, the cache alone dates the directory, and it is moved first: after a sweep
  that dies at that point nothing dates the leftovers until that workflow's next build review.
  `LeftoversReachable` is about steps, and says which of them may lose a directory's date.
* `docs/design/sleep-survival.md:232` says Counterpoint still ends the call at the tick. When
  the sleep falls between the client's receipt of a heartbeat and the reading of the clock that
  marks it (or between a request's arrival and `start`), the silence is measured from the wake,
  and the call runs on. `SilentCallEnds` allows exactly that (`blurred`), and `NotifyProgress`
  on a pipe nobody empties has no deadline.
* `conn.go:25` gives the child a grace to exit after its stdin is closed. A writer that `close`
  finds in the middle of a message fails on the closed pipe and kills the child at once.

## What is proved

All proofs are by TLAPS, for every value of the constants that satisfies the named assumptions
of the modules: finitely many workflows, named by numbers, and texts that are not empty
(`LedgerAssumption`, `ServiceAssumption`); a missing record and a missing state that are none
(`NoWorkflowAssumption`, `NoStateAssumption`); bounds that are natural
numbers; positive queue sizes (`ConnectionAssumption`); an interval of which the client's timeout
is a multiple, more than twice, and which is longer than two delays (`WatchAssumption`); ancestries that are
transitive and repositories whose objects include what is reachable (`TargetAssumption`).

`LedgerProofs`
* `EvictionStops`: the loop of `RetainHistory` reaches a ledger that fits before it runs out of
  records.
* `RetainHistoryValid`: what it returns passes `InvalidHistory` for the next round.
* `TailValid`: evicting the oldest record of a valid ledger leaves a valid one.
* `EvictionEstimate`: what the eviction loop counts as freed for a record is never less than
  what removing it frees.

`ReviewServiceProofs`
* `TypeCorrect`, `CopyStaysCurrent`, `AnswersAreRecorded`, `SavedRecordsStayValid`,
  `StoreStaysLoaded`, `WriterIsHandedOver`: `Spec => []P` for `TypeOK`, `CopyCurrent`,
  `AnswerRecorded`, `SavedRecordsValid`, `StoreLoaded` and `WriterHandedOver`.
* `OnlySupersededOrTrimmed`, `NothingResurrected`, `BrokenFileStays`, `EvictionsNeeded`,
  `HistoryDoesNotBlock`: `Spec => P` for the action properties `RecordsOnlySuperseded`,
  `EvictedStaysEvicted`, `BrokenFileKept`, `EvictedOnlyWhenTooLarge` and `HistoryNeverBlocksSave`.
* `ServiceImplementsRegistry`: `Spec /\ [](edits = 0) => RegistrySpec`, the refinement. The
  registry knows no writer but the calls, so it is stated for the behaviours in which no older
  Counterpoint and no human changes the file, which are those of `service_concurrent`. Crashes,
  evictions, shared stores and any number of rounds are in it.

None of these but the types is inductive. The inductive invariant is

    IInv == /\ Typed /\ Locks /\ Saves /\ Copies /\ Rounds /\ Apart
            /\ Validity /\ Estimate /\ StoreLoaded

* `Typed` adds to the types what each step finds in its frame (a request, a thread, a round, a
  decoded state).
* `Locks` says who holds what where: a call in one of `LockedSteps` holds the lock of its
  workflow, one in `StateLockedSteps` holds the state lock. Each lock having one holder, two
  calls on one workflow are never both past the lock, and no two calls both decode and save.
* `Saves` compares the state a call is about to write with the file, which only a human changes
  while the call holds the state lock: the call's own workflow has the completed round in place of
  the one it copied, every other record is the file's or the file's without its oldest part, or
  the human has just removed it, and no ledger has a record the file's has not; and a file that
  does not parse was broken under the call. The same is said of the state an older Counterpoint
  holds. `RecordsOnlySuperseded`, `EvictedStaysEvicted` and `BrokenFileKept` are what it says of the
  rename. It holds whatever older Counterpoints and humans do, since the code compares the fresh
  record with its copy and refuses when they differ, and since `overtaken` remembers the edit.
* `Copies`: while `edits` is 0, the record a call copied replays what the file replays, from the
  copy to the save, and the completed round does from the rename to the release of the lock. It is
  preserved by the call's own steps since evicting leaves the replayed fields alone, and by another
  call's rename since that call has another workflow (`Locks`) and leaves the other records their
  rounds (`Saves`). `CopyCurrent` and `AnswerRecorded` follow.
* `Rounds` is what the frame says of the round being made: it is the next one, of the thread the
  call holds, for its request, which the copy does not answer; and a verdict stands from the step
  that reaches it to the release of the lock.
* `Apart`: a thread is known to one workflow only, in the file or in the frames of calls past
  their lock. A new thread is one nobody knows (`OwnedIsUsed`). With `Rounds` and `Locks` it
  gives `WriterHandedOver`: a call whose child holds the thread's writer is one of the same
  workflow and still has the lock, so the child is an orphan's, and there was a crash.
* `Validity` says that the file, every decoded state and the round being recorded are valid; it
  needs `RetainHistoryValid` for a new round, `TailValid` for an eviction, and the load's own
  refusal of an invalid record.
* `Estimate` relates the loop's two counters to sizes: the state's size and what the loop has
  counted as freed are together at least the limit and what it must free. `EvictionEstimate`
  preserves it, and it says that a state from which another record is taken is still too large.
* `StoreLoaded` needs only `Locks`: another call's `Load`, which clears the flag, happens under
  the state lock.

Each part has a lemma (`TypedStep`, `LocksStep`, ...) with one step per action, given the parts
before it. The refinement has one lemma per action of the registry (`RegistrySubmits`,
`RegistryReplays`, `RegistryCompletes`, ...) and one for the steps that stutter: a completion's
number and thread come from `Rounds` and `Saves`, that its thread is nobody else's from `Apart`,
and that a replay returns the newest round from `Copies`.

`ConnectionProofs`: `TypeCorrect`, `ReaderIsFree`, `ReasonStands`, `QuestionsAnswered` for
`TypeOK`, `ReaderNeverBlocks`, `ReasonWins`, `RequestsAnswered`. The invariant adds to the types
* `Channels`: an identifier is pending only while its channel is open and empty, and the reader
  is about to deliver on a channel only after it took the identifier out of `pending`, so the
  room it needs cannot be used up by a second answer;
* `Reasoned`: whoever is about to kill the child has recorded why, and only the end of the
  child's output is recorded as its exit;
* `Answering`: until then every question is unread, or its reply is queued, with the writer, in
  the pipe, or read. It counts places in the queues, so each step is an arithmetic of one or two
  lemmas on what appending and taking do to such a count.

`ThreadSetupProofs`: `TypeCorrect`, `TurnStartsOnOwnThread`, `HandoffIsTaken`,
`WarningsAreAccounted` for `TypeOK`, `TurnOnOwnThread`, `HandoffTaken`, `WarningsAccounted`, with
* `Ownership`: from a successful start or resume on the thread is active and this child's, or
  the call has met the failure that says it is not;
* `Telling`: between the unarchive and the turn its warning is in the list, or was counted;
* `Handoff`: as long as the human keeps away, where in the handoff the thread is in which state;
* `Accounts`: up to the turn's end the connection's list tells of raised warnings in their order
  within the bounds, its byte count is the list's, and the rest is counted; from then on the
  result is what `takeWarnings` and at most one more `AppendWarning` make of such a list.

`TurnWatcherProofs`: `TypeCorrect`, `DoneIsClosedOnce`, `TextIsOfTheTurn`, `UsageIsOfTheTurn`.
The invariant `Typed /\ Bounded /\ Told /\ Kept` says that the watcher is a
function of the events so far (`Told`: its turn is the first that was named, its texts the sums,
its usage the last valid report, its end the first end) and that the snapshots `Review` takes
were the watcher (`Kept`). `HandleIs` states field by field what one report adds. The length of a
text is the cardinality of its bytes, a byte being a place in the log and one in the report
(`Bytes`), and of its separators twice that of the messages with a text before them (`Followers`),
so that one more report adds to two finite sets (`TotalGrows`, `FollowersGrow`).

`ScratchProofs`: `TypeCorrect`, `InUseIsKept`, `OnlyStaleIsSwept`, `LeftoversStayReachable`, with
`Typed`, `Framed` (what each step knows), `Apart` (one review of a workflow past its lock),
`Locked` (a lock is held by the review that is in the part of its run it is for) and `Kept`
(what a review has made in its directory is there; what it sweeps is Counterpoint's, and what
is left there is still to be tried or was tried in vain). The last two theorems are about steps.
`DirStep` says what a step may do to a directory. For `OnlyStaleIsSwept` two more facts are
invariant: `AllKnown`, that the stamp, or a cache without a stamp, dates the directory unless it is
stale already, and `MovesAged`, that a review which moves items does so in a directory unused for
too long, since it judged it under the lock and only the directory's own review, which needs that
lock, could use it again. For `LeftoversStayReachable` the fact is `Claimed`: where there are
per-round items there is a lock file.

`McpServerProofs`: `ClientIsOutlived`, `SilenceIsFound`, `LinesAreServed`, `TypeCorrect`.
`WatchInv` relates the ticker, the watcher's mark and what the client heard: `Ticking` (ticks are
whole intervals after the mark, but for a delay), `Marked` (the mark is as old as what the client
last heard, but for a delay and what was slept in it), `HeardOften` (with heartbeats, what a
client did not hear it slept), `EndedInTime` (without them, and awake, the call ends an interval
early), `FoundOut` and `GivenUp`. That the timeout is a whole number of intervals is needed:
without heartbeats a measurement must fall into the margin. For the line reader `Offered` says
that the bytes served and those still held are the lines the reader has finished with, whole and
in order, while it has not failed, and that afterwards what was served ends right before the line
that broke the framing; `ServedLines` says the same of the lines it may serve.

`TargetValidationProofs`: `TypeCorrect`, `Exact`, `TargetIsSound` for all three properties of the
run, for any history. An act of the author is any step to a sound repository (`AuthorActs`), and
the invariant is in three parts: `Held`, what was so at some time since the lock was taken
whatever the author does; `Primary`, that the refs still to be tried decide the primary branch
(`Tried`) while nobody touches those refs; `Seen`, that with an author who keeps still all that
was read is what the repository holds, which gives `Valid` at the merge base and its failure at
every refusal.

Sizes and recursion. The size of an encoded file is a cardinality of a set of positions, so that
no proof about it needs an induction over ledgers. Two proofs do need an induction: the bytes
of a list of warnings (`TotalBytes`) and the bytes of a list of lines (`FlattenSeq`) are recursive
functions over a prefix's length. The library states induction for an operator, which the
provers cannot instantiate; `EveryNatural` states it for a set of numbers instead, from the
library's well-foundedness of the order on them. A recursive function of that form is shown to
exist and to be unique by it, and then obeys its equations; only what one more element adds
(`TotalOfAppend`, `FlattenAppend`) is used beyond that.

Only model-checked is what is said under fairness: `CallsEnd`, `WriterGoneReleasesCall`,
`CloseReturns`, `CompletedTurnReturned`, `ReviewReturns` and `PrepareEnds`. Leading-to properties need `ENABLED` of the
fair actions, which is out of the provers' reach. Every invariant and every action property of
the passing runs is a theorem.

## Abstractions and what is left out

* A request hash is the request; its canonical encoding (`internal/state/request.go`) is taken
  to be injective. Thread ids are unique, which the app-server sees to.
* JSON is sizes. `decodeState`'s checks of fields other than the ledger are one outcome, a file
  that does not decode.
* A rename within a scratch directory or a removal may fail, item by item. A tree is one
  item, and the descriptor-relative walk inside it is not modelled. The stamp and the sweep's
  notion of now come from one reading of the clock in the model and two in the code.
* The child is the only holder of its pipes. A grandchild that keeps stdout open would keep
  `close` waiting for the reader; whether one exists is not decided in this repository.
* The app-server refuses a resume when the thread is archived, deleted or held, an unarchive
  when it is not archived, and otherwise does what it is asked; it may refuse to start or name
  a thread at any time, and answer off policy at any time.
* The fail-closed matching of notifications drops an end of the turn that arrives before the
  turn is known; without `turn/started`, `Review` then returns only when its context ends.
  `TurnWatcher` has the behaviour; `ReviewReturns` promises no more.
* A Git command is atomic and sees one state of the repository; one whose output exceeds a
  bound, that is cancelled or that cannot be started fails without a reason. Replace refs,
  grafts and shallow histories are not modelled: ancestry is a constant.
* The client's timer, its pipes and the SDK between the reader and the handler are external. A
  line is its length, whether the SDK can use it, and its newline. One call runs at a time in
  `CallWatch`; calls share nothing there but the end of the session.

### Not modelled

* `prompt.go` composes text, `config.go` parses one file at start-up, `wire.go` declares
  messages, `repo.go` finds the repository once: no state that steps of two actors share.
* `cmd/counterpoint`: flags, and a report over saved usage.
* `apptest/fake.go` is a test double; the models let the child do anything instead.
* In the modelled components: diagnostic counters and log lines, the policy checks on a thread's
  sandbox (one outcome), the descriptor discipline inside a tree and the canonicalisation of
  paths in `internal/scratch`, the field checks of `decodeState` other than the ledger's.

## Plan

The model:

1. Lock acquisition with deadline and cancellation together (`lock.go`) as a module that the
   service's lock steps refine.
2. `ThreadSetup` composed with the crash of its server, whose child keeps the writer.
3. The policy checks of `threadFromResponse` and `checkSandbox` as functions.

Proofs:

1. How much a save evicts at most: by the loop's count, less than what it must free and one record.
2. Bounds on the work of a call, as a variant that each of its steps decreases: the part of the
   liveness properties that can be stated without fairness.
3. The new modules' invariants.
