----------------------------- MODULE ThreadSetup -----------------------------
(***************************************************************************)
(* One review's session with its reviewer: internal/review/review.go from  *)
(* the setup context to the result of the turn, with the calls of          *)
(* appserver/client.go it makes, against the app-server that carries them  *)
(* out and asks for what it will not be given, the human who archives and  *)
(* opens the same thread in the Codex app, and a context and a connection  *)
(* that end at any time.  The turn itself is TurnWatcher's.                *)
(*                                                                         *)
(* A request that was sent is carried out even when its caller has given   *)
(* up.  What an answer must satisfy besides (thread id, working directory, *)
(* sandbox, approval policy) is one outcome, "mismatch".                   *)
(***************************************************************************)
EXTENDS Warnings, SequencesExt

CONSTANTS
  MaxHuman,  \* bound on what the human does
  Sizes,     \* the sizes a declined request's warning may have
  OwnSize,   \* the size of the warnings Counterpoint raises itself
  MaxAsks    \* bound on what the app-server asks for

ASSUME SetupAssumption == {MaxHuman, OwnSize, MaxAsks} \cup Sizes \subseteq Nat

VARIABLES
  (* the app-server's truth *)
  thread,      \* the workflow's thread
  writer,      \* who may write to it
  req,         \* the request under way
  ans,         \* its answer, on the way back
  (* the call *)
  known,       \* the workflow has a stored thread
  build,       \* the review is a build-capable one
  pc,
  err,         \* the error of the resume that stands
  held,        \* the warnings the connection holds
  reported,    \* the warnings of the completed review
  live,        \* the setup context
  up,          \* the connection
  outcome,
  (* history *)
  unarchived,  \* a request of this call has unarchived the thread
  raised,      \* every warning raised before the turn's end
  modified,    \* the checkout changed during the turn, or could not be checked
  asks,        \* how often the app-server has asked
  human        \* what the human has done since the call began

server == <<thread, writer, req, ans, unarchived>>
request == <<known, build>>
warnings == <<held, reported, raised, modified, asks>>
vars   == <<server, request, pc, err, warnings, live, up, outcome, human>>

Requests == {"initialize", "start", "name", "resume", "unarchive"}
Answers  == {"ok", "refused", "mismatch"}
Errors   == {"none", "refused", "mismatch", "aborted", "transport"}

-----------------------------------------------------------------------------

Init ==
  /\ known \in BOOLEAN /\ build \in BOOLEAN
  /\ thread \in IF known THEN {"active", "archived", "deleted"} ELSE {"none"}
  /\ writer \in IF thread = "active" THEN {"none", "app"} ELSE {"none"}
  /\ req = "none" /\ ans = "none"
  /\ pc = "spawn"
  /\ err = "none"
  /\ held = NoWarnings /\ reported = << >>
  /\ raised = << >> /\ modified = FALSE /\ asks = 0
  /\ live = TRUE /\ up = TRUE
  /\ outcome = "none"
  /\ unarchived = FALSE /\ human = 0

-----------------------------------------------------------------------------
(* The app-server.                                                         *)

Refuses(method) ==
  CASE method = "resume" -> thread # "active" \/ writer = "app"
    [] method = "unarchive" -> thread # "archived"
    [] OTHER -> FALSE

Carry(method) ==
  /\ thread' = IF method \in {"start", "unarchive"} THEN "active" ELSE thread
  /\ writer' = IF method \in {"start", "resume"} THEN "us" ELSE writer
  /\ unarchived' = (unarchived \/ method = "unarchive")

Handle ==
  /\ req # "none"
  /\ req' = "none"
  /\ \/ /\ ~ Refuses(req)
        /\ Carry(req)
        /\ ans' \in {"ok", "mismatch"}
     \/ /\ Refuses(req) \/ req \in {"initialize", "start", "name"}
        /\ ans' = "refused"
        /\ UNCHANGED <<thread, writer, unarchived>>
  /\ UNCHANGED <<request, pc, err, warnings, live, up, outcome, human>>

TurnOver == pc = "integrity" \/ outcome = "reviewed"

Raise(w) ==
  /\ held' = RecordWarning(held, w)
  /\ raised' = IF TurnOver THEN raised ELSE Append(raised, w)

Warning(about, size) == [about |-> about, size |-> size, count |-> 0]

(* The child asks for an approval, a permission or an input, and is        *)
(* declined.  What it asks after the turn is in no result.                 *)
ServerAsks ==
  /\ up /\ pc \notin {"spawn", "closed"}
  /\ asks < MaxAsks
  /\ asks' = asks + 1
  /\ \E n \in Sizes : Raise(Warning("asked", n))
  /\ UNCHANGED <<server, request, pc, err, reported, modified, live, up, outcome, human>>

-----------------------------------------------------------------------------
(* One call to it.                                                         *)

CallKeepingAnswer(at, method, waiting) ==
  /\ pc = at
  /\ up
  /\ req' = method
  /\ pc' = waiting
  /\ UNCHANGED <<thread, writer, ans, unarchived, request, err, warnings, live, up, outcome, human>>

(* A call on an ended context could still be sent.                         *)
Call(at, method, waiting) ==
  /\ pc = at
  /\ up
  /\ req' = method
  /\ ans' = "none"
  /\ pc' = waiting
  /\ UNCHANGED <<thread, writer, unarchived, request, err, warnings, live, up, outcome, human>>

(* What a waiting call may return.                                         *)
CallErrors ==
       (IF ans = "ok" THEN {"none"} ELSE IF ans = "none" THEN {} ELSE {ans})
  \cup (IF live THEN {} ELSE {"aborted"})
  \cup (IF up THEN {} ELSE {"transport"})

(* What a call that has not been sent may return.                          *)
SendErrors == CallErrors \ {"none", "refused", "mismatch"}

Returns(at, waiting, e) ==
  \/ pc = waiting /\ e \in CallErrors
  \/ pc = at /\ e \in SendErrors

(* The deferred Close ends the child, which may carry out what it was sent *)
(* before it gives the thread's writer back.                               *)
Ends(e) ==
  /\ pc' = "close"
  /\ outcome' = e

SetupError(e) == IF live THEN e ELSE "aborted"

-----------------------------------------------------------------------------
(* The child and the handshake.                                            *)

(* Start closes the child itself when the handshake fails.                 *)
Spawn ==
  /\ pc = "spawn"
  /\ \/ pc' = "initialize" /\ UNCHANGED outcome
     \/ pc' = "closed" /\ outcome' = SetupError("failed")
  /\ UNCHANGED <<server, request, err, warnings, live, up, human>>

Initialize == Call("initialize", "initialize", "initializing")

(* An answer without the required fields is a mismatch.                    *)
HandshakeFails ==
  /\ \/ \E e \in Errors \ {"none"} : Returns("initialize", "initializing", e)
     \/ pc = "initialized" /\ ~ (live /\ up)
  /\ Ends(SetupError("failed"))
  /\ UNCHANGED <<server, request, err, warnings, live, up, human>>

Initialized ==
  /\ Returns("initialize", "initializing", "none")
  /\ pc' = "initialized"
  /\ UNCHANGED <<server, request, err, warnings, live, up, outcome, human>>

NotifyInitialized ==
  /\ pc = "initialized"
  /\ up
  /\ pc' = IF known THEN "resume" ELSE "start"
  /\ UNCHANGED <<server, request, err, warnings, live, up, outcome, human>>

-----------------------------------------------------------------------------
(* A first round.                                                          *)

StartThread == Call("start", "start", "starting")

StartFails ==
  /\ \E e \in Errors \ {"none"} : Returns("start", "starting", e)
  /\ Ends(SetupError("failed"))
  /\ UNCHANGED <<server, request, err, warnings, live, up, human>>

Started ==
  /\ Returns("start", "starting", "none")
  /\ pc' = "name"
  /\ UNCHANGED <<server, request, err, warnings, live, up, outcome, human>>

SetThreadName == Call("name", "name", "naming")

(* The name is not required for the review.                                *)
Named ==
  /\ \E e \in Errors :
       /\ Returns("name", "naming", e)
       /\ IF e # "none" /\ ~ live
          THEN Ends("aborted") /\ UNCHANGED <<held, raised>>
          ELSE /\ pc' = "turn"
               /\ outcome' = "ready"
               /\ IF e = "none" THEN UNCHANGED <<held, raised>>
                                ELSE Raise(Warning("name", OwnSize))
  /\ UNCHANGED <<server, request, err, reported, modified, asks, live, up, human>>

-----------------------------------------------------------------------------
(* A later round.                                                          *)

ResumeThread == Call("resume", "resume", "resuming")

(* Only the app-server's own refusal is recovered from, and an aborted     *)
(* call does not go on to recover.                                         *)
Recovers(e) == e = "refused" /\ live

(* The end of the context is transient and must not suggest clearing the   *)
(* stored thread, whatever error the call itself returned.                 *)
ResumeError(e) == IF live THEN "unavailable" ELSE "aborted"

Resumed ==
  \E e \in Errors :
    /\ Returns("resume", "resuming", e)
    /\ err' = e
    /\ CASE e = "none" -> pc' = "turn" /\ outcome' = "ready"
         [] Recovers(e) -> pc' = "unarchive" /\ UNCHANGED outcome
         [] OTHER -> Ends(ResumeError(e))
    /\ UNCHANGED <<server, request, warnings, live, up, human>>

UnarchiveThread == Call("unarchive", "unarchive", "unarchiving")

UnarchivedQuietly == pc' = "again" /\ UNCHANGED <<outcome, held, raised>>

UnarchivedInVain == Ends(ResumeError(err)) /\ UNCHANGED <<held, raised>>

Unarchived ==
  /\ pc' = "again"
  /\ Raise(Warning("unarchived", OwnSize))
  /\ UNCHANGED outcome

(* When the thread was not unarchived the first refusal stands.            *)
UnarchiveReturns ==
  /\ \E e \in Errors :
       /\ Returns("unarchive", "unarchiving", e)
       /\ IF e = "none" /\ live
          THEN Unarchived
          ELSE Ends(ResumeError(err)) /\ UNCHANGED <<held, raised>>
  /\ UNCHANGED <<server, request, err, reported, modified, asks, live, up, human>>

ResumeAgain == Call("again", "resume", "resumingAgain")

ResumedAgain ==
  \E e \in Errors :
    /\ Returns("again", "resumingAgain", e)
    /\ err' = e
    /\ IF e = "none" THEN pc' = "turn" /\ outcome' = "ready" ELSE Ends(ResumeError(e))
    /\ UNCHANGED <<server, request, warnings, live, up, human>>

-----------------------------------------------------------------------------
(* The turn's end, and the result.                                         *)

TurnFails ==
  /\ pc = "turn"
  /\ Ends("turn failed")
  /\ UNCHANGED <<server, request, err, warnings, live, up, human>>

TurnCompletes ==
  /\ pc = "turn"
  /\ reported' = TakeWarnings(held)
  /\ held' = NoWarnings
  /\ IF build THEN pc' = "integrity" /\ UNCHANGED outcome
              ELSE Ends("reviewed")
  /\ UNCHANGED <<server, request, err, raised, modified, asks, live, up, human>>

(* Tracked files the reviewer changed, and a check that failed, are in the *)
(* list when the bounds allow.                                             *)
CheckIntegrity ==
  /\ pc = "integrity"
  /\ modified' \in BOOLEAN
  /\ reported' = IF modified' THEN AppendWarning(reported, Warning("modified", OwnSize)) ELSE reported
  /\ Ends("reviewed")
  /\ UNCHANGED <<server, request, err, held, raised, asks, live, up, human>>

Close ==
  /\ pc = "close"
  /\ pc' = "closed"
  /\ req' = "none"
  /\ writer' = IF writer = "us" THEN "none" ELSE writer
  /\ UNCHANGED <<thread, ans, unarchived, request, err, warnings, live, up, outcome, human>>

-----------------------------------------------------------------------------
(* The environment.                                                        *)

InSetup == pc \notin {"turn", "integrity", "close", "closed"}

ContextEnds ==
  /\ live /\ InSetup
  /\ live' = FALSE
  /\ UNCHANGED <<server, request, pc, err, warnings, up, outcome, human>>

ConnectionEnds ==
  /\ up /\ InSetup
  /\ up' = FALSE
  /\ req' = "none"
  /\ UNCHANGED <<thread, writer, ans, unarchived, request, pc, err, warnings, live, outcome, human>>

(* Archiving in the app releases its writer; a thread is opened there when *)
(* nobody else writes to it.                                               *)
Human ==
  /\ known /\ InSetup
  /\ human < MaxHuman
  /\ human' = human + 1
  /\ writer # "us"
  /\ \/ thread = "active" /\ thread' = "archived" /\ writer' = "none"
     \/ thread = "archived" /\ thread' = "active" /\ writer' \in {"none", "app"}
     \/ thread = "active" /\ writer = "none" /\ writer' = "app" /\ UNCHANGED thread
     \/ thread # "deleted" /\ thread' = "deleted" /\ writer' = "none"
  /\ UNCHANGED <<req, ans, unarchived, request, pc, err, warnings, live, up, outcome>>

-----------------------------------------------------------------------------

Next ==
  \/ Handle \/ ServerAsks
  \/ Spawn \/ Initialize \/ Initialized \/ HandshakeFails \/ NotifyInitialized
  \/ StartThread \/ Started \/ StartFails \/ SetThreadName \/ Named
  \/ ResumeThread \/ Resumed \/ UnarchiveThread \/ UnarchiveReturns
  \/ ResumeAgain \/ ResumedAgain
  \/ TurnFails \/ TurnCompletes \/ CheckIntegrity \/ Close
  \/ ContextEnds \/ ConnectionEnds \/ Human

Spec == Init /\ [][Next]_vars

-----------------------------------------------------------------------------
(* Properties.                                                             *)

Kinds == {"asked", "name", "unarchived", "modified", "omitted"}
Entries == [about : Kinds, size : Nat, count : Nat]

ServerTypeOK ==
  /\ thread \in {"none", "active", "archived", "deleted"}
  /\ writer \in {"none", "app", "us"}
  /\ req \in Requests \cup {"none"} /\ ans \in Answers \cup {"none"}
  /\ req = "none" \/ ans = "none"
  /\ unarchived \in BOOLEAN /\ human \in 0 .. MaxHuman

CallSteps ==
  {"spawn", "initialize", "initializing", "initialized", "start", "starting", "name", "naming",
   "resume", "resuming", "unarchive", "unarchiving", "again", "resumingAgain", "turn",
   "integrity", "close", "closed"}

Outcomes == {"none", "ready", "failed", "aborted", "unavailable", "turn failed", "reviewed"}

CallTypeOK ==
  /\ known \in BOOLEAN /\ build \in BOOLEAN
  /\ pc \in CallSteps
  /\ err \in Errors
  /\ live \in BOOLEAN /\ up \in BOOLEAN
  /\ outcome \in Outcomes

WarningsTypeOK ==
  /\ held \in [list : Seq(Entries), bytes : 0 .. MaxWarningBytes, omitted : Nat]
  /\ reported \in Seq(Entries) /\ raised \in Seq(Entries)
  /\ modified \in BOOLEAN /\ asks \in 0 .. MaxAsks

(* The types, and that an answer belongs to the latest request.            *)
TypeOK == ServerTypeOK /\ CallTypeOK /\ WarningsTypeOK

(* A turn starts only on a thread that is active and that this call's      *)
(* child writes to, and the human learns of it when Counterpoint took the  *)
(* thread out of the archive, unless the bound on warnings swallowed it    *)
(* (review.go, the archive handoff).                                       *)
TurnOnOwnThread ==
  pc = "turn" =>
    /\ thread = "active" /\ writer = "us"
    /\ unarchived => held.omitted > 0 \/ \E w \in ToSet(held.list) : w.about = "unarchived"

(* "Counterpoint treats an archived thread as the human's handoff": a      *)
(* thread that was archived, or that nobody held, when the call began is   *)
(* reviewed on, unless the human, the connection or an answer off policy   *)
(* interferes (review.go, resume, unarchive, resume).                      *)
HandoffTaken ==
  outcome = "unavailable" /\ human = 0 /\ up /\ ans # "mismatch" =>
    thread = "deleted" \/ writer = "app"

(* A completed review tells of every warning raised before its turn ended, *)
(* in the order they were raised, or counts it, within the bounds but for  *)
(* the entry with the count; and of a changed checkout whenever there is   *)
(* room (recordWarning, takeWarnings, AppendWarning).                      *)
WarningsAccounted ==
  outcome = "reviewed" =>
    LET counts == {i \in DOMAIN reported : reported[i].about = "omitted"}
        changed == {i \in DOMAIN reported : reported[i].about = "modified"}
        told == DOMAIN reported \ (counts \cup changed)
    IN /\ \E origin \in [told -> DOMAIN raised] :
            /\ \A i \in told : reported[i] = raised[origin[i]]
            /\ \A i, j \in told : i < j => origin[i] < origin[j]
       /\ counts = {} => Cardinality(told) = Len(raised)
       /\ \A i \in counts : reported[i].count = Len(raised) - Cardinality(told)
       /\ Cardinality(counts) <= 1
       /\ Len(reported) <= MaxWarnings + Cardinality(counts)
       /\ TotalBytes(reported) <= MaxWarningBytes + MarkerBytes * Cardinality(counts)
       /\ changed # {} => modified
       /\ modified /\ changed = {} =>
            Len(reported) >= MaxWarnings \/ TotalBytes(reported) + OwnSize > MaxWarningBytes

=============================================================================
