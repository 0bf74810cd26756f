--------------------------- MODULE TargetValidation ---------------------------
(***************************************************************************)
(* The review target of one call: internal/gitrepo (target.go, branch.go,  *)
(* instructions.go, checkout.go) as Service.review of                      *)
(* internal/review/review.go uses it.                                      *)
(*                                                                         *)
(* A target is validated by one Git command after another, each of which   *)
(* sees the repository as it is then; the author goes on working in it     *)
(* meanwhile: commits, amends, resets, checks out, edits, fetches, deletes *)
(* branches and collects garbage.  Any command may also fail for a reason  *)
(* that says nothing about the repository.                                 *)
(*                                                                         *)
(* The history is a constant: Ancestry[c] is c and its ancestors.          *)
(***************************************************************************)
EXTENDS Integers, Sequences

CONSTANTS
  Commits, Ancestry,
  Unusable,   \* the commits whose COUNTERPOINT.md cannot be used
  Names,      \* branch names
  Main, Master,
  None,
  HEAD,       \* the commit identifier "HEAD"
  Elsewhere,  \* an origin HEAD that does not point at a branch of origin
  Repos,      \* the repositories a run starts with
  Requests,   \* what is asked: a branch, a commit identifier, a build or not
  Records,    \* the workflow's last round: its commit and base, or None
  MaxActs     \* bound on what the author does

Refs == {"heads", "remotes"} \X Names

Repositories == [refs : [Refs -> Commits \cup {None}], origin : Names \cup {None, Elsewhere},
                 head : Names \cup Commits, dirty : BOOLEAN, objects : SUBSET Commits]

HeadCommit(r) == IF r.head \in Names THEN r.refs[<<"heads", r.head>>] ELSE r.head

Pointed(r) == ({r.refs[f] : f \in Refs} \cup {HeadCommit(r)}) \ {None}

Reachable(r) == UNION {Ancestry[c] : c \in Pointed(r)}

(* What is reachable exists, and so do the ancestors of what exists.       *)
Sound(r) ==
  /\ Reachable(r) \subseteq r.objects
  /\ \A c \in r.objects : Ancestry[c] \subseteq r.objects

ASSUME TargetAssumption ==
  /\ Ancestry \in [Commits -> SUBSET Commits]
  /\ \A c \in Commits : c \in Ancestry[c]
  /\ \A c \in Commits : \A d \in Ancestry[c] : Ancestry[d] \subseteq Ancestry[c]
  /\ Commits \cap Names = {}
  /\ {None, HEAD, Elsewhere} \cap (Commits \cup Names) = {}
  /\ None # Elsewhere /\ None \notin Refs
  /\ {Main, Master} \subseteq Names
  /\ Repos \subseteq {r \in Repositories : Sound(r)}
  /\ Requests \subseteq [branch : Names, commit : Commits \cup Names \cup {HEAD}, build : BOOLEAN]
  /\ Records \subseteq [commit : Commits, base : Commits] \cup {None}
  /\ MaxActs \in Nat

VARIABLES
  repo,     \* the author's repository
  acts,     \* how often the author has touched it
  request, record,
  pc,       \* the Git command the call runs next
  todo,     \* the refs PrimaryBranch still has to try
  target,   \* what the call has found
  outcome,  \* how it ended
  since     \* what happened since the workflow lock was taken

vars == <<repo, acts, request, record, pc, todo, target, outcome, since>>

-----------------------------------------------------------------------------
(* The repository.                                                         *)

Tip(r, name) == r.refs[<<"heads", name>>]

(* rev-parse --verify: a name, HEAD, or an object that still exists.       *)
Resolve(r, id) ==
  IF id = HEAD THEN HeadCommit(r)
  ELSE IF id \in Names THEN Tip(r, id)
  ELSE IF id \in r.objects THEN id ELSE None

MergeBases(a, b) ==
  LET common == Ancestry[a] \cap Ancestry[b]
  IN {c \in common : \A d \in common : c \in Ancestry[d] => d = c}

NoTarget == [tip |-> None, name |-> None, ref |-> None, commit |-> None,
             base |-> None, rewritten |-> FALSE]

(* The tips and HEADs there were since the lock was taken, and whether the *)
(* author has left alone everything, the primary branch, the objects.      *)
Undisturbed == [tips |-> {Tip(repo, request.branch)}, heads |-> {HeadCommit(repo)},
                quiet |-> TRUE, primaryQuiet |-> TRUE, kept |-> TRUE]

Init ==
  /\ repo \in Repos
  /\ acts = 0
  /\ request \in Requests
  /\ record \in Records
  /\ pc = "resolve"
  /\ todo = << >>
  /\ target = NoTarget
  /\ outcome = "none"
  /\ since = Undisturbed

-----------------------------------------------------------------------------
(* The author.                                                             *)

(* Every ref the primary branch could be taken from, with this origin.     *)
PrimaryRefs(origin) == {f \in Refs : f[2] \in {Main, Master, origin}}

Act(r) ==
  /\ pc # "done"
  /\ acts < MaxActs
  /\ repo' = r
  /\ acts' = acts + 1
  /\ since' = [tips |-> since.tips \cup {Tip(r, request.branch)},
               heads |-> since.heads \cup {HeadCommit(r)},
               quiet |-> FALSE,
               primaryQuiet |-> /\ since.primaryQuiet
                                /\ r.origin = repo.origin
                                /\ \A f \in Refs : r.refs[f] # repo.refs[f] => f \notin PrimaryRefs(r.origin),
               kept |-> since.kept /\ repo.objects \subseteq r.objects]
  /\ UNCHANGED <<request, record, pc, todo, target, outcome>>

(* A commit, an amendment, a reset, a fetch: a ref moves.                  *)
MoveRef ==
  \E f \in Refs, c \in Commits, d \in BOOLEAN :
    /\ c # repo.refs[f]
    /\ f # <<"heads", repo.head>> => d = repo.dirty
    /\ Act([repo EXCEPT !.refs[f] = c, !.dirty = d, !.objects = @ \cup Ancestry[c]])

DeleteRef ==
  \E f \in Refs :
    /\ repo.refs[f] # None
    /\ f # <<"heads", repo.head>>
    /\ Act([repo EXCEPT !.refs[f] = None])

Checkout ==
  \E h \in Names \cup repo.objects :
    /\ h # repo.head
    /\ h \in Names => Tip(repo, h) # None
    /\ Act([repo EXCEPT !.head = h])

Edit == Act([repo EXCEPT !.dirty = ~ @])

SetOriginHead ==
  \E o \in Names \cup {None, Elsewhere} : o # repo.origin /\ Act([repo EXCEPT !.origin = o])

CollectGarbage ==
  /\ ~ (repo.objects \subseteq Reachable(repo))
  /\ Act([repo EXCEPT !.objects = @ \cap Reachable(repo)])

Author == MoveRef \/ DeleteRef \/ Checkout \/ Edit \/ SetOriginHead \/ CollectGarbage

-----------------------------------------------------------------------------
(* The call.                                                               *)

Return(what) ==
  /\ outcome' = what
  /\ pc' = "done"

Fail(why) == Return(why) /\ UNCHANGED <<todo, target, since>>

Found(t, next) ==
  /\ target' = t
  /\ pc' = next
  /\ UNCHANGED <<todo, outcome, since>>

(* The branch names the workflow, before its lock is taken.                *)
ResolveBranch ==
  /\ pc = "resolve"
  /\ IF Tip(repo, request.branch) = None
     THEN Fail("branchNotFound")
     ELSE Found(target, "lock")

(* ... and is resolved again once the lock is held and the record loaded.  *)
AcquireWorkflowLock ==
  /\ pc = "lock"
  /\ pc' = "tip"
  /\ since' = Undisturbed
  /\ UNCHANGED <<todo, target, outcome>>

ResolveTip ==
  /\ pc = "tip"
  /\ LET tip == Tip(repo, request.branch) IN
       IF tip = None THEN Fail("branchNotFound")
                     ELSE Found([target EXCEPT !.tip = tip], "originHead")

(* The local ref is tried before the one of origin.                        *)
RefsOf(name) == << <<"heads", name>>, <<"remotes", name>> >>

PrimaryCandidatesInAnyCase(origin) ==
  (IF origin = None THEN << >> ELSE RefsOf(origin)) \o RefsOf(Main) \o RefsOf(Master)

(* Where the primary branch may be: the branch origin's HEAD names, and    *)
(* main or master only when origin has no HEAD.                            *)
PrimaryCandidates(origin) ==
  IF origin = None THEN RefsOf(Main) \o RefsOf(Master) ELSE RefsOf(origin)

RemoteHeadName ==
  /\ pc = "originHead"
  /\ IF repo.origin = Elsewhere
     THEN Fail("noPrimaryBranch")
     ELSE /\ todo' = PrimaryCandidates(repo.origin)
          /\ pc' = "primaryRef"
          /\ UNCHANGED <<target, outcome, since>>

PrimaryRef ==
  /\ pc = "primaryRef"
  /\ IF todo = << >> THEN Fail("noPrimaryBranch")
     ELSE LET f == Head(todo) IN
          IF repo.refs[f] = None
          THEN /\ todo' = Tail(todo)
               /\ UNCHANGED <<pc, target, outcome, since>>
          ELSE IF f[2] = request.branch
          THEN Fail("primaryBranch")
          ELSE Found([target EXCEPT !.name = f[2], !.ref = f], "commit")

ResolveCommit ==
  /\ pc = "commit"
  /\ LET c == Resolve(repo, request.commit) IN
       IF c = None THEN Fail("commitNotFound")
       ELSE IF c # target.tip THEN Fail("notTheTip")
       ELSE Found([target EXCEPT !.commit = c], "head")

ResolveHeadUncompared ==
  /\ pc = "head"
  /\ IF HeadCommit(repo) = None
     THEN Fail("commitNotFound")
     ELSE Found(target, "status")

ResolveHead ==
  /\ pc = "head"
  /\ LET c == HeadCommit(repo) IN
       IF c = None THEN Fail("commitNotFound")
       ELSE IF c # target.commit THEN Fail("notHEAD")
       ELSE Found(target, "status")

RequireClean ==
  /\ pc = "status"
  /\ IF repo.dirty THEN Fail("dirtyWorktree") ELSE Found(target, "mergeBase")

MergeBaseForgotten ==
  /\ pc = "mergeBase"
  /\ repo.refs[target.ref] # None
  /\ target.commit \in repo.objects
  /\ IF MergeBases(repo.refs[target.ref], target.commit) = {}
     THEN Fail("noMergeBase")
     ELSE Found(target, IF record = None THEN "instructions" ELSE "previousTip")

(* Without a previous round there is no history to have been rewritten.    *)
MergeBase ==
  /\ pc = "mergeBase"
  /\ repo.refs[target.ref] # None
  /\ target.commit \in repo.objects
  /\ LET bases == MergeBases(repo.refs[target.ref], target.commit) IN
       IF bases = {} THEN Fail("noMergeBase")
       ELSE \E b \in bases :
              Found([target EXCEPT !.base = b], IF record = None THEN "instructions" ELSE "previousTip")

PreviousTip ==
  /\ pc = "previousTip"
  /\ IF record.commit \in repo.objects
     THEN Found(target, "isAncestor")
     ELSE Found([target EXCEPT !.rewritten = TRUE], "replay")

IsAncestor ==
  /\ pc = "isAncestor"
  /\ {record.commit, target.commit} \subseteq repo.objects
  /\ Found([target EXCEPT !.rewritten = record.commit \notin Ancestry[target.commit]], "replay")

(* The same commit, base, notes and mode as in the last round are answered *)
(* from the record; the notes and the mode may be the same.                *)
Replay ==
  /\ pc = "replay"
  /\ \/ /\ record = [commit |-> target.commit, base |-> target.base]
        /\ Return("replayed") /\ UNCHANGED <<todo, target, since>>
     \/ Found(target, "instructions")

(* Read from the commit, never from the worktree.                          *)
ReadInstructions ==
  /\ pc = "instructions"
  /\ target.commit \in repo.objects
  /\ IF target.commit \in Unusable
     THEN Fail("unusableInstructions")
     ELSE IF request.build
     THEN Found(target, "clone")
     ELSE Return("accepted") /\ UNCHANGED <<todo, target, since>>

(* The clone shares the object store, and so loses what the author's       *)
(* repository loses.                                                       *)
CloneDetached ==
  /\ pc = "clone"
  /\ target.commit \in repo.objects
  /\ Return("accepted") /\ UNCHANGED <<todo, target, since>>

(* A command that is cancelled, is not started or exits with any status    *)
(* but the one for absence.                                                *)
CommandFails == pc \notin {"lock", "replay", "done"} /\ Fail("commandFailed")

Step ==
  \/ ResolveBranch \/ AcquireWorkflowLock \/ ResolveTip \/ RemoteHeadName \/ PrimaryRef
  \/ ResolveCommit \/ ResolveHead \/ RequireClean \/ MergeBase \/ PreviousTip \/ IsAncestor
  \/ Replay \/ ReadInstructions \/ CloneDetached \/ CommandFails

Call == Step /\ UNCHANGED <<repo, acts, request, record>>

Next == Author \/ Call

Spec == Init /\ [][Next]_vars

-----------------------------------------------------------------------------
(* Where the call is once a field of its target is known.                  *)
Accepted == outcome \in {"accepted", "replayed"}
HasBase == pc \in {"previousTip", "isAncestor", "replay", "instructions", "clone"} \/ Accepted
HasCommit == pc \in {"head", "status", "mergeBase"} \/ HasBase
HasRef == pc = "commit" \/ HasCommit
HasTip == pc \in {"originHead", "primaryRef"} \/ HasRef

Stages == {"resolve", "lock", "tip", "originHead", "primaryRef", "commit", "head", "status",
           "mergeBase", "previousTip", "isAncestor", "replay", "instructions", "clone"}

Failures == {"branchNotFound", "noPrimaryBranch", "primaryBranch", "commitNotFound",
             "notTheTip", "notHEAD", "dirtyWorktree", "noMergeBase",
             "unusableInstructions", "commandFailed"}

TypeOK ==
  /\ repo \in Repositories /\ Sound(repo)
  /\ acts \in 0 .. MaxActs
  /\ request \in Requests
  /\ record \in Records
  /\ pc \in Stages \cup {"done"}
  /\ todo \in Seq(Refs)
  /\ target \in [tip : Commits \cup {None}, name : Names \cup {None}, ref : Refs \cup {None},
                 commit : Commits \cup {None}, base : Commits \cup {None}, rewritten : BOOLEAN]
  /\ HasTip => target.tip # None
  /\ HasRef => target.ref # None
  /\ HasCommit => target.commit # None
  /\ HasBase => target.base # None
  /\ since \in [tips : SUBSET (Commits \cup {None}), heads : SUBSET (Commits \cup {None}),
                quiet : BOOLEAN, primaryQuiet : BOOLEAN, kept : BOOLEAN]
  /\ outcome \in {"none", "accepted", "replayed"} \cup Failures

(* A branch's local ref, or origin's, or None.                             *)
RefOf(r, name) ==
  IF r.refs[<<"heads", name>>] # None THEN <<"heads", name>>
  ELSE IF r.refs[<<"remotes", name>>] # None THEN <<"remotes", name>>
  ELSE None

(* The ref of the primary branch, or None.                                 *)
PrimaryRefOf(r) ==
  IF r.origin = Elsewhere THEN None
  ELSE IF r.origin # None THEN RefOf(r, r.origin)
  ELSE IF RefOf(r, Main) # None THEN RefOf(r, Main)
  ELSE RefOf(r, Master)

(* A repository a request may be reviewed in.                              *)
Valid(r) ==
  LET tip == Tip(r, request.branch)
      ref == PrimaryRefOf(r)
  IN /\ tip # None /\ ref # None
     /\ ref[2] # request.branch
     /\ Resolve(r, request.commit) = tip
     /\ HeadCommit(r) = tip
     /\ ~ r.dirty
     /\ MergeBases(r.refs[ref], tip) # {}

(* If the author keeps still while the lock is held and no command fails,  *)
(* a request is let through to the reviewer or the record exactly when it  *)
(* may be, with the base and the verdict on the history the repository     *)
(* gives (ValidateTarget).                                                 *)
UndisturbedIsExact ==
  pc = "done" /\ since.quiet /\ outcome # "commandFailed" =>
    /\ (outcome \in {"accepted", "replayed", "unusableInstructions"}) <=> Valid(repo)
    /\ outcome = "accepted" =>
         /\ target.base \in MergeBases(repo.refs[PrimaryRefOf(repo)], target.commit)
         /\ target.rewritten <=> record # None /\ record.commit \notin Ancestry[target.commit]

(* Whatever the author does meanwhile, a commit that goes to the reviewer  *)
(* was the branch's tip and HEAD while the lock was held, its base is one  *)
(* of its ancestors, the branch is not a primary branch nobody touched,    *)
(* and the history is called rewritten exactly when the commit of the last *)
(* round is not behind it, if no objects were lost (ValidateTarget,        *)
(* ReadInstructions).                                                      *)
TargetHolds ==
  outcome = "accepted" =>
    /\ target.commit \in since.tips \cap since.heads
    /\ target.base \in Ancestry[target.commit]
    /\ since.primaryQuiet => PrimaryRefOf(repo)[2] # request.branch
    /\ since.kept => (target.rewritten <=> record # None /\ record.commit \notin Ancestry[target.commit])
=============================================================================
