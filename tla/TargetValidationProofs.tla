------------------------ MODULE TargetValidationProofs ------------------------
(***************************************************************************)
(* Proofs about TargetValidation, for any history, any repositories to     *)
(* start from and any number of acts of the author.                        *)
(*                                                                         *)
(* The inductive invariant is in two halves.  Held says what the call may  *)
(* rely on whatever the author does: what it has read was so at some time  *)
(* since the lock was taken.  Seen says that with an author who keeps      *)
(* still everything the call has read is what the repository holds.        *)
(***************************************************************************)
EXTENDS TargetValidation, TLAPS

-----------------------------------------------------------------------------
(* The repository.                                                         *)

(* What the assumption on the constants says, fact by fact.                *)
LEMMA Constants ==
  /\ Ancestry \in [Commits -> SUBSET Commits]
  /\ \A c \in Commits : c \in Ancestry[c]
  /\ \A c \in Commits : \A d \in Ancestry[c] : Ancestry[d] \subseteq Ancestry[c]
  /\ Commits \cap Names = {}
  /\ None \notin Commits /\ None \notin Names /\ None \notin Refs
  /\ HEAD \notin Commits /\ HEAD \notin Names
  /\ Elsewhere \notin Names /\ None # Elsewhere
  /\ Main \in Names /\ Master \in Names
BY TargetAssumption

(* The heads of a repository are commits, or nothing.                      *)
LEMMA HeadsAreCommits ==
  ASSUME NEW r \in Repositories
  PROVE  /\ \A f \in Refs : r.refs[f] \in Commits \cup {None}
         /\ \A n \in Names : Tip(r, n) \in Commits \cup {None}
         /\ HeadCommit(r) \in Commits \cup {None}
         /\ Pointed(r) \subseteq Commits
         /\ Reachable(r) \subseteq Commits
<1>1. r.refs \in [Refs -> Commits \cup {None}] /\ r.head \in Names \cup Commits
  BY DEF Repositories
<1>2. \A n \in Names : <<"heads", n>> \in Refs
  BY DEF Refs
<1>3. HeadCommit(r) \in Commits \cup {None}
  BY <1>1, <1>2 DEF HeadCommit
<1>4. Pointed(r) \subseteq Commits
  BY <1>1, <1>3 DEF Pointed
<1>5. Reachable(r) \subseteq Commits
  BY <1>4, Constants DEF Reachable
<1>6. QED
  BY <1>1, <1>2, <1>3, <1>4, <1>5 DEF Tip

(* What a ref or HEAD points at is there, with all its ancestors.          *)
LEMMA PointedIsThere ==
  ASSUME NEW r \in Repositories, Sound(r), NEW c \in Pointed(r)
  PROVE  c \in r.objects /\ Ancestry[c] \subseteq r.objects
<1>1. c \in Commits
  BY HeadsAreCommits
<1>2. c \in Ancestry[c] /\ Ancestry[c] \subseteq Reachable(r)
  BY <1>1, Constants DEF Reachable
<1>3. QED
  BY <1>2 DEF Sound

(* What a commit identifier resolves to exists.                            *)
LEMMA ResolvedIsThere ==
  ASSUME NEW r \in Repositories, Sound(r), NEW id, Resolve(r, id) # None
  PROVE  Resolve(r, id) \in r.objects
<1>1. CASE id = HEAD
  <2>1. Resolve(r, id) \in Pointed(r)
    BY <1>1 DEF Resolve, Pointed
  <2>2. QED
    BY <2>1, PointedIsThere
<1>2. CASE id # HEAD /\ id \in Names
  <2>1. <<"heads", id>> \in Refs
    BY <1>2 DEF Refs
  <2>2. Resolve(r, id) \in Pointed(r)
    BY <1>2, <2>1 DEF Resolve, Tip, Pointed
  <2>3. QED
    BY <2>2, PointedIsThere
<1>3. CASE id # HEAD /\ id \notin Names
  BY <1>3 DEF Resolve
<1>4. QED
  BY <1>1, <1>2, <1>3

(* A repository stays sound when what it points at is among its objects.   *)
LEMMA SoundWhen ==
  ASSUME NEW r \in Repositories, Pointed(r) \subseteq r.objects,
         \A c \in r.objects : Ancestry[c] \subseteq r.objects
  PROVE  Sound(r)
BY DEF Sound, Reachable

(* Soundness is about refs, HEAD and objects only.                         *)
LEMMA SoundLike ==
  ASSUME NEW r \in Repositories, NEW q \in Repositories, Sound(q),
         r.refs = q.refs, r.head = q.head, r.objects = q.objects
  PROVE  Sound(r)
<1>1. HeadCommit(r) = HeadCommit(q)
  BY DEF HeadCommit
<1>2. Pointed(r) = Pointed(q)
  BY <1>1 DEF Pointed
<1>3. Reachable(r) = Reachable(q)
  BY <1>2 DEF Reachable
<1>4. QED
  BY <1>3 DEF Sound

-----------------------------------------------------------------------------
(* The author: a step leads to a sound repository.                         *)

Sane == repo \in Repositories /\ Sound(repo)

(* A ref that moves brings the ancestors of its commit with it.            *)
LEMMA MoveRefActs ==
  ASSUME Sane, MoveRef
  PROVE  \E r \in Repositories : Sound(r) /\ Act(r)
<1>1. PICK f \in Refs, c \in Commits, d \in BOOLEAN :
        Act([repo EXCEPT !.refs[f] = c, !.dirty = d, !.objects = @ \cup Ancestry[c]])
  BY DEF MoveRef
<1> DEFINE r == [repo EXCEPT !.refs[f] = c, !.dirty = d, !.objects = @ \cup Ancestry[c]]
<1>2. /\ repo.refs \in [Refs -> Commits \cup {None}] /\ repo.objects \subseteq Commits
      /\ Ancestry[c] \subseteq Commits
  BY Constants DEF Sane, Repositories
<1>3. /\ r.refs = [repo.refs EXCEPT ![f] = c] /\ r.head = repo.head
      /\ r.objects = repo.objects \cup Ancestry[c]
  BY DEF Sane, Repositories
<1>4. r \in Repositories
  BY <1>2, <1>3 DEF Sane, Repositories
<1>5. \A g \in Refs : r.refs[g] = c \/ r.refs[g] = repo.refs[g]
  BY <1>2, <1>3
<1>6. HeadCommit(r) = c \/ HeadCommit(r) = HeadCommit(repo)
  <2>1. repo.head \in Names => <<"heads", repo.head>> \in Refs
    BY DEF Refs
  <2>2. QED
    BY <1>3, <1>5, <2>1 DEF HeadCommit
<1>7. Pointed(r) \subseteq Pointed(repo) \cup {c}
  BY <1>5, <1>6 DEF Pointed
<1>8. Pointed(r) \subseteq r.objects
  BY <1>3, <1>7, PointedIsThere, Constants DEF Sane
<1>9. \A e \in r.objects : Ancestry[e] \subseteq r.objects
  BY <1>3, Constants DEF Sane, Sound
<1>10. Sound(r)
  BY <1>4, <1>8, <1>9, SoundWhen
<1>11. QED
  BY <1>1, <1>4, <1>10

(* A ref that goes takes no object with it.                                *)
LEMMA DeleteRefActs ==
  ASSUME Sane, DeleteRef
  PROVE  \E r \in Repositories : Sound(r) /\ Act(r)
<1>1. PICK f \in Refs : f # <<"heads", repo.head>> /\ Act([repo EXCEPT !.refs[f] = None])
  BY DEF DeleteRef
<1> DEFINE r == [repo EXCEPT !.refs[f] = None]
<1>2. repo.refs \in [Refs -> Commits \cup {None}]
  BY DEF Sane, Repositories
<1>3. r.refs = [repo.refs EXCEPT ![f] = None] /\ r.head = repo.head /\ r.objects = repo.objects
  BY DEF Sane, Repositories
<1>4. r \in Repositories
  BY <1>2, <1>3 DEF Sane, Repositories
<1>5. \A g \in Refs : r.refs[g] = None \/ r.refs[g] = repo.refs[g]
  BY <1>2, <1>3
<1>6. HeadCommit(r) = HeadCommit(repo)
  <2>1. repo.head \in Names => <<"heads", repo.head>> \in Refs
    BY DEF Refs
  <2>2. QED
    BY <1>1, <1>2, <1>3, <2>1 DEF HeadCommit
<1>7. Pointed(r) \subseteq Pointed(repo)
  BY <1>5, <1>6 DEF Pointed
<1>8. Pointed(r) \subseteq r.objects
  BY <1>3, <1>7, PointedIsThere DEF Sane
<1>9. \A e \in r.objects : Ancestry[e] \subseteq r.objects
  BY <1>3 DEF Sane, Sound
<1>10. Sound(r)
  BY <1>4, <1>8, <1>9, SoundWhen
<1>11. QED
  BY <1>1, <1>4, <1>10

(* What is checked out exists.                                             *)
LEMMA CheckoutActs ==
  ASSUME Sane, Checkout
  PROVE  \E r \in Repositories : Sound(r) /\ Act(r)
<1>1. PICK h \in Names \cup repo.objects : Act([repo EXCEPT !.head = h])
  BY DEF Checkout
<1> DEFINE r == [repo EXCEPT !.head = h]
<1>2. /\ repo.refs \in [Refs -> Commits \cup {None}] /\ repo.objects \subseteq Commits
      /\ h \in Names \cup Commits
  BY DEF Sane, Repositories
<1>3. r.refs = repo.refs /\ r.head = h /\ r.objects = repo.objects
  BY DEF Sane, Repositories
<1>4. r \in Repositories
  BY <1>2, <1>3 DEF Sane, Repositories
<1>5. HeadCommit(r) \in repo.objects \cup {repo.refs[f] : f \in Refs}
  <2>1. CASE h \in Names
    <3>1. <<"heads", h>> \in Refs
      BY <2>1 DEF Refs
    <3>2. QED
      BY <2>1, <1>3, <3>1 DEF HeadCommit
  <2>2. CASE h \notin Names
    BY <2>2, <1>3 DEF HeadCommit
  <2>3. QED
    BY <2>1, <2>2
<1>6. Pointed(r) \subseteq Pointed(repo) \cup repo.objects
  BY <1>3, <1>5 DEF Pointed
<1>7. Pointed(r) \subseteq r.objects
  BY <1>3, <1>6, PointedIsThere DEF Sane
<1>8. \A e \in r.objects : Ancestry[e] \subseteq r.objects
  BY <1>3 DEF Sane, Sound
<1>9. Sound(r)
  BY <1>4, <1>7, <1>8, SoundWhen
<1>10. QED
  BY <1>1, <1>4, <1>9

(* The worktree and origin's HEAD point at no commit by themselves.        *)
LEMMA EditActs ==
  ASSUME Sane, Edit \/ SetOriginHead
  PROVE  \E r \in Repositories : Sound(r) /\ Act(r)
<1>1. PICK d \in BOOLEAN, o \in Names \cup {None, Elsewhere} :
        Act([repo EXCEPT !.dirty = d]) \/ Act([repo EXCEPT !.origin = o])
  <2>1. CASE Edit
    <3>1. (~ repo.dirty) \in BOOLEAN /\ Act([repo EXCEPT !.dirty = ~ repo.dirty])
      BY <2>1 DEF Edit
    <3>2. QED
      BY <3>1
  <2>2. CASE SetOriginHead
    BY <2>2 DEF SetOriginHead
  <2>3. QED
    BY <2>1, <2>2
<1>2. \A r \in {[repo EXCEPT !.dirty = d], [repo EXCEPT !.origin = o]} :
        /\ r \in Repositories
        /\ r.refs = repo.refs /\ r.head = repo.head /\ r.objects = repo.objects
  BY DEF Sane, Repositories
<1>3. \A r \in {[repo EXCEPT !.dirty = d], [repo EXCEPT !.origin = o]} : Sound(r)
  BY <1>2, SoundLike DEF Sane
<1>4. QED
  BY <1>1, <1>2, <1>3

(* Collecting garbage keeps what is reachable.                             *)
LEMMA CollectGarbageActs ==
  ASSUME Sane, CollectGarbage
  PROVE  \E r \in Repositories : Sound(r) /\ Act(r)
<1> DEFINE r == [repo EXCEPT !.objects = @ \cap Reachable(repo)]
<1>1. Act(r)
  BY DEF CollectGarbage
<1>2. r.refs = repo.refs /\ r.head = repo.head /\ r.objects = repo.objects \cap Reachable(repo)
  BY DEF Sane, Repositories
<1>3. r \in Repositories
  BY <1>2 DEF Sane, Repositories
<1>4. Pointed(r) = Pointed(repo) /\ Reachable(r) = Reachable(repo)
  BY <1>2 DEF Pointed, Reachable, HeadCommit
<1>5. r.objects = Reachable(repo)
  BY <1>2 DEF Sane, Sound
<1>6. \A c \in Reachable(repo) : Ancestry[c] \subseteq Reachable(repo)
  <2> SUFFICES ASSUME NEW c \in Reachable(repo) PROVE Ancestry[c] \subseteq Reachable(repo)
    OBVIOUS
  <2>1. PICK p \in Pointed(repo) : c \in Ancestry[p]
    BY DEF Reachable
  <2>2. p \in Commits
    BY HeadsAreCommits DEF Sane
  <2>3. Ancestry[c] \subseteq Ancestry[p]
    BY <2>1, <2>2, Constants
  <2>4. QED
    BY <2>3 DEF Reachable
<1>7. Sound(r)
  BY <1>4, <1>5, <1>6 DEF Sound
<1>8. QED
  BY <1>1, <1>3, <1>7

(* Whatever the author does is an act that leads to a sound repository.    *)
LEMMA AuthorActs ==
  ASSUME Sane, Author
  PROVE  \E r \in Repositories : Sound(r) /\ Act(r)
BY MoveRefActs, DeleteRefActs, CheckoutActs, EditActs, CollectGarbageActs DEF Author

-----------------------------------------------------------------------------
(* The invariant.                                                          *)

(* Where the call is once it has compared HEAD, looked at the worktree and *)
(* judged the history; and before it has judged it.                        *)
PastHead == pc \in {"status", "mergeBase"} \/ HasBase
PastStatus == pc = "mergeBase" \/ HasBase
Judged == pc \in {"replay", "instructions", "clone"} \/ Accepted
Unjudged == pc \in {"resolve", "lock", "tip", "originHead", "primaryRef", "commit", "head",
                    "status", "mergeBase"}

Typed == TypeOK /\ (pc = "done" <=> outcome # "none")

(* The refs still to be tried decide what the primary branch is.           *)
Tried ==
  /\ \A i \in DOMAIN todo : todo[i] \in PrimaryRefs(repo.origin)
  /\ \/ /\ \A i \in DOMAIN todo : repo.refs[todo[i]] = None
        /\ PrimaryRefOf(repo) = None
     \/ \E i \in DOMAIN todo :
          /\ repo.refs[todo[i]] # None
          /\ PrimaryRefOf(repo) = todo[i]
          /\ \A j \in 1 .. i - 1 : repo.refs[todo[j]] = None

(* What holds whatever the author does.                                    *)
Held ==
  /\ Tip(repo, request.branch) \in since.tips
  /\ HeadCommit(repo) \in since.heads
  /\ HasTip => target.tip \in since.tips
  /\ HasCommit => target.commit = target.tip
  /\ PastHead => target.commit \in since.heads
  /\ HasBase => target.base \in Ancestry[target.commit]
  /\ since.kept /\ HasCommit => target.commit \in repo.objects
  /\ pc \in {"previousTip", "isAncestor", "replay"} => record # None
  /\ Unjudged => ~ target.rewritten
  /\ since.kept /\ Judged =>
       (target.rewritten <=> record # None /\ record.commit \notin Ancestry[target.commit])

(* What holds while nobody touches the primary branch.                     *)
Primary ==
  since.primaryQuiet =>
    /\ pc = "primaryRef" => Tried
    /\ HasRef => PrimaryRefOf(repo) = target.ref /\ target.ref[2] # request.branch

LetThrough == outcome \in {"accepted", "replayed", "unusableInstructions"}

(* What holds while the author keeps still.                                *)
Seen ==
  since.quiet =>
    /\ since.primaryQuiet /\ since.kept
    /\ HasTip => target.tip = Tip(repo, request.branch)
    /\ HasCommit => target.commit = Resolve(repo, request.commit)
    /\ PastHead => HeadCommit(repo) = target.commit
    /\ PastStatus => ~ repo.dirty
    /\ HasBase => target.base \in MergeBases(repo.refs[target.ref], target.commit)
    /\ pc = "done" /\ outcome # "commandFailed" => (LetThrough <=> Valid(repo))

IInv == Typed /\ Held /\ Primary /\ Seen

(* The primary branch depends on the refs it could be taken from only.     *)
LEMMA PrimaryIsLocal ==
  ASSUME NEW q \in Repositories, NEW r \in Repositories, r.origin = q.origin,
         \A f \in Refs : r.refs[f] # q.refs[f] => f \notin PrimaryRefs(r.origin)
  PROVE  PrimaryRefOf(r) = PrimaryRefOf(q)
<1>1. \A n \in Names : n \in {Main, Master, r.origin} =>
        /\ <<"heads", n>> \in Refs /\ <<"remotes", n>> \in Refs
        /\ <<"heads", n>>[2] = n /\ <<"remotes", n>>[2] = n
  BY DEF Refs
<1>2. \A n \in Names : n \in {Main, Master, r.origin} => RefOf(r, n) = RefOf(q, n)
  BY <1>1 DEF RefOf, PrimaryRefs
<1>3. r.origin \in Names \cup {None, Elsewhere}
  BY DEF Repositories
<1>4. QED
  BY <1>2, <1>3, Constants DEF PrimaryRefOf

(* An act of the author keeps what does not depend on the author.          *)
LEMMA ActStep ==
  ASSUME IInv, NEW r \in Repositories, Sound(r), Act(r)
  PROVE  IInv'
<1>1. /\ repo' = r /\ acts' = acts + 1 /\ acts < MaxActs
      /\ UNCHANGED <<request, record, pc, todo, target, outcome>>
      /\ pc # "done"
  BY DEF Act
<1>2. /\ since'.tips = since.tips \cup {Tip(r, request.branch)}
      /\ since'.heads = since.heads \cup {HeadCommit(r)}
      /\ since'.quiet = FALSE
      /\ since'.primaryQuiet = (/\ since.primaryQuiet
                                /\ r.origin = repo.origin
                                /\ \A f \in Refs : r.refs[f] # repo.refs[f] => f \notin PrimaryRefs(r.origin))
      /\ since'.kept = (since.kept /\ repo.objects \subseteq r.objects)
      /\ since' = [tips |-> since'.tips, heads |-> since'.heads, quiet |-> since'.quiet,
                   primaryQuiet |-> since'.primaryQuiet, kept |-> since'.kept]
  BY Zenon DEF Act
<1>3. TypeOK
  BY DEF IInv, Typed
<1>4. since' \in [tips : SUBSET (Commits \cup {None}), heads : SUBSET (Commits \cup {None}),
                  quiet : BOOLEAN, primaryQuiet : BOOLEAN, kept : BOOLEAN]
  <2>1. request.branch \in Names
    BY <1>3, TargetAssumption DEF TypeOK
  <2>2. since'.tips \in SUBSET (Commits \cup {None}) /\ since'.heads \in SUBSET (Commits \cup {None})
    BY <1>2, <1>3, <2>1, HeadsAreCommits DEF TypeOK
  <2>3. since'.quiet \in BOOLEAN /\ since'.primaryQuiet \in BOOLEAN /\ since'.kept \in BOOLEAN
    BY <1>2, Zenon
  <2>4. QED
    BY <1>2, <2>2, <2>3, Zenon
<1>5. acts' \in 0 .. MaxActs
  BY <1>1, <1>3, TargetAssumption DEF TypeOK
<1>6. Typed'
  BY <1>1, <1>3, <1>4, <1>5
     DEF IInv, Typed, TypeOK, HasTip, HasRef, HasCommit, HasBase, Accepted
<1>7. Held'
  <2>1. /\ HasTip' = HasTip /\ HasCommit' = HasCommit /\ PastHead' = PastHead
        /\ HasBase' = HasBase /\ Judged' = Judged /\ Unjudged' = Unjudged
    BY <1>1 DEF HasTip, HasRef, HasCommit, PastHead, HasBase, Judged, Unjudged, Accepted
  <2>2. /\ Tip(repo, request.branch)' \in since'.tips /\ HeadCommit(repo)' \in since'.heads
        /\ since.tips \subseteq since'.tips /\ since.heads \subseteq since'.heads
        /\ since'.kept => since.kept /\ repo.objects \subseteq repo'.objects
    BY <1>1, <1>2
  <2>3. QED
    BY <1>1, <2>1, <2>2 DEF IInv, Held
<1>8. Primary'
  <2> SUFFICES ASSUME since'.primaryQuiet PROVE Primary'
    BY DEF Primary
  <2>1. /\ since.primaryQuiet /\ r.origin = repo.origin
        /\ \A f \in Refs : r.refs[f] # repo.refs[f] => f \notin PrimaryRefs(r.origin)
    BY <1>2
  <2>2. PrimaryRefOf(r) = PrimaryRefOf(repo)
    BY <1>3, <2>1, PrimaryIsLocal DEF TypeOK
  <2>3. Tried => Tried'
    <3>1. \A f \in PrimaryRefs(repo.origin) : r.refs[f] = repo.refs[f]
      BY <2>1 DEF PrimaryRefs
    <3>2. /\ todo' = todo /\ PrimaryRefOf(repo)' = PrimaryRefOf(repo)
          /\ PrimaryRefs(repo.origin)' = PrimaryRefs(repo.origin)
      BY <1>1, <2>1, <2>2
    <3>3. ASSUME Tried PROVE \A i \in DOMAIN todo : repo'.refs[todo[i]] = repo.refs[todo[i]]
      BY <1>1, <3>1, <3>3 DEF Tried
    <3>4. ASSUME NEW i \in DOMAIN todo, NEW j \in 1 .. i - 1 PROVE j \in DOMAIN todo
      BY <1>3 DEF TypeOK
    <3>5. QED
      BY <3>2, <3>3, <3>4 DEF Tried
  <2>4. QED
    BY <1>1, <2>1, <2>2, <2>3 DEF IInv, Primary, HasRef, HasCommit, HasBase, Accepted
<1>9. Seen'
  BY <1>2 DEF Seen
<1>10. QED
  BY <1>6, <1>7, <1>8, <1>9 DEF IInv

-----------------------------------------------------------------------------
(* The call.                                                               *)

Still == UNCHANGED <<repo, acts, request, record>>

Targets == [tip : Commits \cup {None}, name : Names \cup {None}, ref : Refs \cup {None},
            commit : Commits \cup {None}, base : Commits \cup {None}, rewritten : BOOLEAN]

(* What the repository gives a call that only reads it.                    *)
LEMMA Reads ==
  ASSUME IInv
  PROVE  /\ repo \in Repositories /\ Sound(repo)
         /\ request.branch \in Names
         /\ Tip(repo, request.branch) \in Commits \cup {None}
         /\ HeadCommit(repo) \in Commits \cup {None}
         /\ record # None => record.commit \in Commits /\ record.base \in Commits
         /\ target \in Targets
<1>1. TypeOK
  BY DEF IInv, Typed
<1>2. request.branch \in Names
  BY <1>1, TargetAssumption DEF TypeOK
<1>3. record # None => record.commit \in Commits /\ record.base \in Commits
  BY <1>1, TargetAssumption DEF TypeOK
<1>4. QED
  BY <1>1, <1>2, <1>3, HeadsAreCommits DEF TypeOK, Targets

(* A call that fails has to be right about why, if nobody disturbed it.    *)
LEMMA FailStep ==
  ASSUME IInv, Still, NEW why \in Failures, Fail(why), pc # "done",
         since.quiet /\ why # "commandFailed" => (why = "unusableInstructions" <=> Valid(repo))
  PROVE  IInv'
<1>1. /\ pc' = "done" /\ outcome' = why /\ outcome' # "none"
      /\ outcome' \notin {"accepted", "replayed"}
      /\ UNCHANGED <<repo, acts, request, record, todo, target, since>>
  BY DEF Fail, Return, Still, Failures
<1>2. /\ ~ HasTip' /\ ~ HasRef' /\ ~ HasCommit' /\ ~ PastHead' /\ ~ PastStatus' /\ ~ HasBase'
      /\ ~ Judged' /\ ~ Unjudged'
  BY <1>1 DEF HasTip, HasRef, HasCommit, PastHead, PastStatus, HasBase, Judged, Unjudged, Accepted
<1>3. Typed'
  BY <1>1, <1>2 DEF IInv, Typed, TypeOK
<1>4. Held'
  BY <1>1, <1>2 DEF IInv, Held
<1>5. Primary'
  BY <1>1, <1>2 DEF IInv, Primary
<1>6. Valid(repo)' = Valid(repo)
  BY <1>1 DEF Valid
<1>7. Seen'
  BY <1>1, <1>2, <1>6 DEF IInv, Seen, LetThrough, Failures
<1>8. QED
  BY <1>3, <1>4, <1>5, <1>7 DEF IInv

(* A call that found something goes on: what it knew it still knows.       *)
LEMMA GoesOn ==
  ASSUME IInv, Still, NEW t \in Targets, NEW next \in Stages, Found(t, next), pc # "done"
  PROVE  /\ target' = t /\ pc' = next /\ pc' # "done"
         /\ outcome = "none" /\ outcome' = "none" /\ ~ Accepted /\ ~ Accepted'
         /\ UNCHANGED <<repo, acts, request, record, todo, since>>
         /\ target \in Targets
<1>1. target' = t /\ pc' = next /\ UNCHANGED <<repo, acts, request, record, todo, since, outcome>>
  BY DEF Found, Still
<1>2. outcome = "none" /\ target \in Targets
  BY DEF IInv, Typed, TypeOK, Targets
<1>3. next # "done"
  BY DEF Stages
<1>4. QED
  BY <1>1, <1>2, <1>3 DEF Accepted

(* Nothing is kept of the first look at the branch.                        *)
LEMMA ResolveBranchStep == ASSUME IInv, Still, ResolveBranch PROVE IInv'
<1>1. CASE Tip(repo, request.branch) = None
  <2>1. Fail("branchNotFound") /\ pc # "done" /\ "branchNotFound" \in Failures
    BY <1>1 DEF ResolveBranch, Failures
  <2>2. ~ Valid(repo)
    BY <1>1 DEF Valid
  <2>3. QED
    BY <2>1, <2>2, FailStep
<1>2. CASE Tip(repo, request.branch) # None
  <2>1. Found(target, "lock") /\ pc = "resolve"
    BY <1>2 DEF ResolveBranch
  <2>2. /\ target' = target /\ pc' = "lock" /\ outcome' = "none" /\ ~ Accepted /\ ~ Accepted'
        /\ UNCHANGED <<repo, acts, request, record, todo, since>>
    BY <2>1, GoesOn, Reads DEF Stages
  <2>3. /\ ~ HasTip' /\ ~ HasRef' /\ ~ HasCommit' /\ ~ PastHead' /\ ~ PastStatus' /\ ~ HasBase'
        /\ ~ Judged' /\ Unjudged /\ pc' # "primaryRef" /\ pc' # "done"
        /\ pc' \notin {"previousTip", "isAncestor", "replay"}
    BY <2>1, <2>2 DEF HasTip, HasRef, HasCommit, PastHead, PastStatus, HasBase, Judged, Unjudged
  <2>4. Typed'
    BY <2>2, <2>3 DEF IInv, Typed, TypeOK, Stages
  <2>5. Held'
    BY <2>2, <2>3 DEF IInv, Held
  <2>6. Primary' /\ Seen'
    BY <2>2, <2>3 DEF IInv, Primary, Seen
  <2>7. QED
    BY <2>4, <2>5, <2>6 DEF IInv
<1>3. QED
  BY <1>1, <1>2

(* What is remembered of the author begins with the lock.                  *)
LEMMA AcquireWorkflowLockStep == ASSUME IInv, Still, AcquireWorkflowLock PROVE IInv'
<1>1. /\ pc = "lock" /\ pc' = "tip" /\ since' = Undisturbed
      /\ UNCHANGED <<repo, acts, request, record, todo, target, outcome>>
  BY DEF AcquireWorkflowLock, Still
<1>2. outcome = "none" /\ ~ Accepted /\ ~ Accepted'
  BY <1>1 DEF IInv, Typed, Accepted
<1>3. /\ ~ HasTip' /\ ~ HasRef' /\ ~ HasCommit' /\ ~ PastHead' /\ ~ PastStatus' /\ ~ HasBase'
      /\ ~ Judged' /\ Unjudged /\ pc' # "primaryRef" /\ pc' # "done"
      /\ pc' \notin {"previousTip", "isAncestor", "replay"}
  BY <1>1, <1>2 DEF HasTip, HasRef, HasCommit, PastHead, PastStatus, HasBase, Judged, Unjudged
<1>4. /\ since'.tips = {Tip(repo, request.branch)} /\ since'.heads = {HeadCommit(repo)}
      /\ since'.quiet = TRUE /\ since'.primaryQuiet = TRUE /\ since'.kept = TRUE
      /\ since' \in [tips : SUBSET (Commits \cup {None}), heads : SUBSET (Commits \cup {None}),
                     quiet : BOOLEAN, primaryQuiet : BOOLEAN, kept : BOOLEAN]
  BY <1>1, Reads DEF Undisturbed
<1>5. Typed'
  BY <1>1, <1>2, <1>3, <1>4 DEF IInv, Typed, TypeOK, Stages
<1>6. Held'
  BY <1>1, <1>3, <1>4 DEF IInv, Held
<1>7. Primary' /\ Seen'
  BY <1>3, <1>4 DEF Primary, Seen
<1>8. QED
  BY <1>5, <1>6, <1>7 DEF IInv

(* The tip is read once, under the lock.                                   *)
LEMMA ResolveTipStep == ASSUME IInv, Still, ResolveTip PROVE IInv'
<1> DEFINE tip == Tip(repo, request.branch)
           t == [target EXCEPT !.tip = tip]
<1>1. CASE tip = None
  <2>1. Fail("branchNotFound") /\ pc # "done" /\ "branchNotFound" \in Failures
    BY <1>1 DEF ResolveTip, Failures
  <2>2. ~ Valid(repo)
    BY <1>1 DEF Valid
  <2>3. QED
    BY <2>1, <2>2, FailStep
<1>2. CASE tip # None
  <2>1. Found(t, "originHead") /\ pc = "tip"
    BY <1>2 DEF ResolveTip
  <2>2. t \in Targets /\ t.tip = tip /\ t.rewritten = target.rewritten
    BY Reads DEF Targets
  <2>3. /\ target' = t /\ pc' = "originHead" /\ outcome' = "none" /\ ~ Accepted /\ ~ Accepted'
        /\ UNCHANGED <<repo, acts, request, record, todo, since>>
    BY <2>1, <2>2, GoesOn DEF Stages
  <2>4. /\ ~ HasRef' /\ ~ HasCommit' /\ ~ PastHead' /\ ~ PastStatus' /\ ~ HasBase'
        /\ ~ Judged' /\ Unjudged /\ pc' # "primaryRef" /\ pc' # "done"
        /\ pc' \notin {"previousTip", "isAncestor", "replay"}
    BY <2>1, <2>3 DEF HasRef, HasCommit, PastHead, PastStatus, HasBase, Judged, Unjudged
  <2>5. Typed'
    BY <1>2, <2>2, <2>3, <2>4 DEF IInv, Typed, TypeOK, Stages, Targets
  <2>6. Held'
    BY <2>2, <2>3, <2>4 DEF IInv, Held
  <2>7. Primary' /\ Seen'
    BY <2>2, <2>3, <2>4 DEF IInv, Primary, Seen
  <2>8. QED
    BY <2>5, <2>6, <2>7 DEF IInv
<1>3. QED
  BY <1>1, <1>2

(* Two pairs, one after the other.                                         *)
LEMMA TwoPairs ==
  ASSUME NEW S, NEW a \in S, NEW b \in S, NEW c \in S, NEW d \in S
  PROVE  LET s == <<a, b>> \o <<c, d>>
         IN /\ s \in Seq(S) /\ DOMAIN s = 1 .. 4
            /\ s[1] = a /\ s[2] = b /\ s[3] = c /\ s[4] = d
OBVIOUS

(* The first of the candidates that exists is the primary branch.          *)
LEMMA CandidatesDecide ==
  ASSUME NEW r \in Repositories, r.origin # Elsewhere,
         NEW s, s = PrimaryCandidates(r.origin)
  PROVE  /\ s \in Seq(Refs)
         /\ \A i \in DOMAIN s : s[i] \in PrimaryRefs(r.origin)
         /\ \/ /\ \A i \in DOMAIN s : r.refs[s[i]] = None
               /\ PrimaryRefOf(r) = None
            \/ \E i \in DOMAIN s :
                 /\ r.refs[s[i]] # None
                 /\ PrimaryRefOf(r) = s[i]
                 /\ \A j \in 1 .. i - 1 : r.refs[s[j]] = None
<1>0. \A n \in Names : <<"heads", n>> \in Refs /\ <<"remotes", n>> \in Refs
  BY DEF Refs
<1>1. CASE r.origin = None
  <2> DEFINE a == <<"heads", Main>>
             b == <<"remotes", Main>>
             c == <<"heads", Master>>
             d == <<"remotes", Master>>
  <2>1. s = <<a, b>> \o <<c, d>>
    BY <1>1 DEF PrimaryCandidates, RefsOf
  <2>2. {a, b, c, d} \subseteq Refs /\ a[2] = Main /\ b[2] = Main /\ c[2] = Master /\ d[2] = Master
    BY <1>0, Constants
  <2>3. {a, b, c, d} \subseteq PrimaryRefs(r.origin)
    BY <2>2 DEF PrimaryRefs
  <2>4. /\ r.refs[a] # None => PrimaryRefOf(r) = a
        /\ r.refs[a] = None /\ r.refs[b] # None => PrimaryRefOf(r) = b
        /\ r.refs[a] = None /\ r.refs[b] = None /\ r.refs[c] # None => PrimaryRefOf(r) = c
        /\ r.refs[a] = None /\ r.refs[b] = None /\ r.refs[c] = None /\ r.refs[d] # None
             => PrimaryRefOf(r) = d
        /\ r.refs[a] = None /\ r.refs[b] = None /\ r.refs[c] = None /\ r.refs[d] = None
             => PrimaryRefOf(r) = None
    <3>1. /\ RefOf(r, Main) = IF r.refs[a] # None THEN a ELSE IF r.refs[b] # None THEN b ELSE None
          /\ RefOf(r, Master) = IF r.refs[c] # None THEN c ELSE IF r.refs[d] # None THEN d ELSE None
      BY DEF RefOf
    <3>2. PrimaryRefOf(r) = IF RefOf(r, Main) # None THEN RefOf(r, Main) ELSE RefOf(r, Master)
      BY <1>1, Constants DEF PrimaryRefOf
    <3>3. a # None /\ b # None
      BY <2>2, Constants
    <3> HIDE DEF a, b, c, d
    <3>4. QED
      BY <3>1, <3>2, <3>3
  <2> HIDE DEF a, b, c, d
  <2>5. DOMAIN s = 1 .. 4 /\ s[1] = a /\ s[2] = b /\ s[3] = c /\ s[4] = d /\ s \in Seq(Refs)
    BY <2>1, <2>2, TwoPairs
  <2>6. \A i \in DOMAIN s : s[i] \in PrimaryRefs(r.origin)
    BY <2>3, <2>5
  <2>7. CASE r.refs[a] # None
    BY <2>4, <2>5, <2>6, <2>7
  <2>8. CASE r.refs[a] = None /\ r.refs[b] # None
    <3>1. 2 \in DOMAIN s /\ \A j \in 1 .. 2 - 1 : r.refs[s[j]] = None
      BY <2>5, <2>8
    <3>2. QED
      BY <2>4, <2>5, <2>6, <2>8, <3>1
  <2>9. CASE r.refs[a] = None /\ r.refs[b] = None /\ r.refs[c] # None
    <3>1. 3 \in DOMAIN s /\ \A j \in 1 .. 3 - 1 : r.refs[s[j]] = None
      BY <2>5, <2>9
    <3>2. QED
      BY <2>4, <2>5, <2>6, <2>9, <3>1
  <2>10. CASE r.refs[a] = None /\ r.refs[b] = None /\ r.refs[c] = None /\ r.refs[d] # None
    <3>1. 4 \in DOMAIN s /\ \A j \in 1 .. 4 - 1 : r.refs[s[j]] = None
      BY <2>5, <2>10
    <3>2. QED
      BY <2>4, <2>5, <2>6, <2>10, <3>1
  <2>11. CASE r.refs[a] = None /\ r.refs[b] = None /\ r.refs[c] = None /\ r.refs[d] = None
    BY <2>4, <2>5, <2>6, <2>11
  <2>12. QED
    BY <2>7, <2>8, <2>9, <2>10, <2>11
<1>2. CASE r.origin # None
  <2> DEFINE a == <<"heads", r.origin>>
             b == <<"remotes", r.origin>>
  <2>1. s = <<a, b>>
    BY <1>2 DEF PrimaryCandidates, RefsOf
  <2>2. r.origin \in Names
    BY <1>2 DEF Repositories
  <2>3. {a, b} \subseteq Refs /\ a[2] = r.origin /\ b[2] = r.origin
    BY <1>0, <2>2
  <2>4. {a, b} \subseteq PrimaryRefs(r.origin)
    BY <2>3 DEF PrimaryRefs
  <2>5. PrimaryRefOf(r) = IF r.refs[a] # None THEN a ELSE IF r.refs[b] # None THEN b ELSE None
    BY <1>2 DEF PrimaryRefOf, RefOf
  <2> HIDE DEF a, b
  <2>6. DOMAIN s = 1 .. 2 /\ s[1] = a /\ s[2] = b /\ s \in Seq(Refs)
    BY <2>1, <2>3
  <2>7. \A i \in DOMAIN s : s[i] \in PrimaryRefs(r.origin)
    BY <2>4, <2>6
  <2>8. CASE r.refs[a] # None
    BY <2>5, <2>6, <2>7, <2>8
  <2>9. CASE r.refs[a] = None /\ r.refs[b] # None
    <3>1. 2 \in DOMAIN s /\ \A j \in 1 .. 2 - 1 : r.refs[s[j]] = None
      BY <2>6, <2>9
    <3>2. QED
      BY <2>5, <2>6, <2>7, <2>9, <3>1
  <2>10. CASE r.refs[a] = None /\ r.refs[b] = None
    BY <2>5, <2>6, <2>7, <2>10
  <2>11. QED
    BY <2>8, <2>9, <2>10
<1>3. QED
  BY <1>1, <1>2

(* Origin's HEAD decides which refs are tried.                             *)
LEMMA RemoteHeadNameStep == ASSUME IInv, Still, RemoteHeadName PROVE IInv'
<1>1. CASE repo.origin = Elsewhere
  <2>1. Fail("noPrimaryBranch") /\ pc # "done" /\ "noPrimaryBranch" \in Failures
    BY <1>1 DEF RemoteHeadName, Failures
  <2>2. ~ Valid(repo)
    BY <1>1 DEF Valid, PrimaryRefOf
  <2>3. QED
    BY <2>1, <2>2, FailStep
<1>2. CASE repo.origin # Elsewhere
  <2>1. /\ pc = "originHead" /\ pc' = "primaryRef" /\ todo' = PrimaryCandidates(repo.origin)
        /\ UNCHANGED <<repo, acts, request, record, target, outcome, since>>
    BY <1>2 DEF RemoteHeadName, Still
  <2>2. outcome = "none" /\ ~ Accepted /\ ~ Accepted'
    BY <2>1 DEF IInv, Typed, Accepted
  <2>3. /\ HasTip /\ HasTip' /\ ~ HasRef' /\ ~ HasCommit' /\ ~ PastHead' /\ ~ PastStatus' /\ ~ HasBase'
        /\ ~ Judged' /\ Unjudged /\ pc' # "done"
        /\ pc' \notin {"previousTip", "isAncestor", "replay"}
    BY <2>1, <2>2 DEF HasTip, HasRef, HasCommit, PastHead, PastStatus, HasBase, Judged, Unjudged
  <2>4. Tried' /\ todo' \in Seq(Refs)
    BY <1>2, <2>1, Reads, CandidatesDecide DEF Tried
  <2>5. Typed'
    BY <2>1, <2>2, <2>3, <2>4 DEF IInv, Typed, TypeOK, Stages
  <2>6. Held'
    BY <2>1, <2>3 DEF IInv, Held
  <2>7. Primary' /\ Seen'
    BY <2>1, <2>3, <2>4 DEF IInv, Primary, Seen
  <2>8. QED
    BY <2>5, <2>6, <2>7 DEF IInv
<1>3. QED
  BY <1>1, <1>2

(* Of the refs still to be tried: none is left, or the first is absent and *)
(* the rest decide, or the first decides.                                  *)
LEMMA TriedOne ==
  ASSUME todo \in Seq(Refs), Tried
  PROVE  /\ todo = << >> => PrimaryRefOf(repo) = None
         /\ todo # << >> /\ repo.refs[Head(todo)] # None => PrimaryRefOf(repo) = Head(todo)
         /\ todo # << >> /\ repo.refs[Head(todo)] = None /\ todo' = Tail(todo) /\ repo' = repo => Tried'
<1>1. todo = << >> => PrimaryRefOf(repo) = None
  BY DEF Tried
<1>2. ASSUME todo # << >>
      PROVE  Head(todo) = todo[1] /\ 1 \in DOMAIN todo /\ DOMAIN todo = 1 .. Len(todo) /\ Len(todo) \in Nat
  BY <1>2
<1>3. ASSUME todo # << >>, repo.refs[Head(todo)] # None PROVE PrimaryRefOf(repo) = Head(todo)
  <2>1. PICK i \in DOMAIN todo : /\ PrimaryRefOf(repo) = todo[i]
                                 /\ \A j \in 1 .. i - 1 : repo.refs[todo[j]] = None
    BY <1>2, <1>3 DEF Tried
  <2>2. i = 1
    <3>1. i \in 1 .. Len(todo)
      BY <1>2, <1>3
    <3>2. i # 1 => 1 \in 1 .. i - 1
      BY <3>1
    <3>3. QED
      BY <1>2, <1>3, <2>1, <3>2
  <2>3. QED
    BY <1>2, <1>3, <2>1, <2>2
<1>4. ASSUME todo # << >>, repo.refs[Head(todo)] = None, todo' = Tail(todo), repo' = repo
      PROVE  Tried'
  <2>1. DOMAIN todo' = 1 .. Len(todo) - 1 /\ \A i \in 1 .. Len(todo) - 1 : todo'[i] = todo[i + 1]
    BY <1>2, <1>4
  <2>2. Len(todo) \in Nat /\ Len(todo) > 0 /\ DOMAIN todo = 1 .. Len(todo)
    BY <1>2, <1>4
  <2>3. \A i \in DOMAIN todo' : i + 1 \in DOMAIN todo
    BY <2>1, <2>2
  <2>4. \A i \in DOMAIN todo' : todo'[i] \in PrimaryRefs(repo.origin)
    BY <2>1, <2>3 DEF Tried
  <2>5. CASE (\A i \in DOMAIN todo : repo.refs[todo[i]] = None) /\ PrimaryRefOf(repo) = None
    <3>1. \A i \in DOMAIN todo' : repo.refs[todo'[i]] = None
      BY <2>1, <2>3, <2>5
    <3>2. QED
      BY <1>4, <2>4, <2>5, <3>1 DEF Tried
  <2>6. ASSUME NEW i \in DOMAIN todo, repo.refs[todo[i]] # None, PrimaryRefOf(repo) = todo[i],
               \A j \in 1 .. i - 1 : repo.refs[todo[j]] = None
        PROVE  Tried'
    <3>1. i # 1
      BY <1>2, <1>4, <2>6
    <3>2. i - 1 \in DOMAIN todo' /\ todo'[i - 1] = todo[i]
      BY <2>1, <2>2, <3>1
    <3>3. \A j \in 1 .. (i - 1) - 1 : repo.refs[todo'[j]] = None
      <4> SUFFICES ASSUME NEW j \in 1 .. (i - 1) - 1 PROVE repo.refs[todo'[j]] = None
        OBVIOUS
      <4>1. j + 1 \in 1 .. i - 1 /\ j \in 1 .. Len(todo) - 1
        BY <2>2
      <4>2. QED
        BY <2>1, <2>6, <4>1
    <3>4. repo'.refs[todo'[i - 1]] # None /\ PrimaryRefOf(repo)' = todo'[i - 1]
      BY <1>4, <2>6, <3>2
    <3>5. QED
      BY <1>4, <2>4, <3>2, <3>3, <3>4 DEF Tried
  <2>7. QED
    BY <2>5, <2>6 DEF Tried
<1>5. QED
  BY <1>1, <1>3, <1>4

(* A ref that is tried is absent, or the primary branch.                   *)
LEMMA PrimaryRefStep == ASSUME IInv, Still, PrimaryRef PROVE IInv'
<1>1. /\ pc = "primaryRef" /\ pc # "done" /\ todo \in Seq(Refs)
      /\ outcome = "none" /\ ~ Accepted /\ target \in Targets
  BY DEF PrimaryRef, IInv, Typed, TypeOK, Accepted, Targets
<1>2. /\ since.primaryQuiet => Tried
      /\ since.quiet => since.primaryQuiet
  BY <1>1 DEF IInv, Primary, Seen
<1>3. CASE todo = << >>
  <2>1. Fail("noPrimaryBranch") /\ "noPrimaryBranch" \in Failures
    BY <1>3 DEF PrimaryRef, Failures
  <2>2. since.quiet => ~ Valid(repo)
    BY <1>1, <1>2, <1>3, TriedOne DEF Valid
  <2>3. QED
    BY <1>1, <2>1, <2>2, FailStep
<1>4. CASE todo # << >> /\ repo.refs[Head(todo)] = None
  <2>1. /\ todo' = Tail(todo)
        /\ UNCHANGED <<repo, acts, request, record, pc, target, outcome, since>>
    BY <1>4 DEF PrimaryRef, Still
  <2>2. todo' \in Seq(Refs) /\ (Tried => Tried')
    BY <1>1, <1>4, <2>1, TriedOne
  <2>3. /\ HasTip' = HasTip /\ HasRef' = HasRef /\ HasCommit' = HasCommit /\ PastHead' = PastHead
        /\ PastStatus' = PastStatus /\ HasBase' = HasBase /\ Judged' = Judged /\ Unjudged' = Unjudged
    BY <2>1 DEF HasTip, HasRef, HasCommit, PastHead, PastStatus, HasBase, Judged, Unjudged, Accepted
  <2>4. Typed'
    BY <2>1, <2>2, <2>3 DEF IInv, Typed, TypeOK
  <2>5. Held'
    BY <2>1, <2>3 DEF IInv, Held
  <2>6. Primary'
    BY <2>1, <2>2, <2>3 DEF IInv, Primary
  <2>7. Seen'
    BY <1>1, <2>1, <2>3 DEF IInv, Seen
  <2>8. QED
    BY <2>4, <2>5, <2>6, <2>7 DEF IInv
<1>5. CASE todo # << >> /\ repo.refs[Head(todo)] # None
  <2> DEFINE f == Head(todo)
             t == [target EXCEPT !.name = f[2], !.ref = f]
  <2>1. f \in Refs /\ f # None /\ f[2] \in Names
    BY <1>1, <1>5, Constants DEF Refs
  <2>2. since.primaryQuiet => PrimaryRefOf(repo) = f
    BY <1>1, <1>2, <1>5, TriedOne
  <2>3. CASE f[2] = request.branch
    <3>1. Fail("primaryBranch") /\ "primaryBranch" \in Failures
      BY <1>5, <2>3 DEF PrimaryRef, Failures
    <3>2. since.quiet => ~ Valid(repo)
      BY <1>2, <2>2, <2>3 DEF Valid
    <3>3. QED
      BY <1>1, <3>1, <3>2, FailStep
  <2>4. CASE f[2] # request.branch
    <3>1. Found(t, "commit")
      BY <1>5, <2>4 DEF PrimaryRef
    <3>2. t \in Targets /\ t.tip = target.tip /\ t.ref = f /\ t.rewritten = target.rewritten
      BY <1>1, <2>1 DEF Targets
    <3>3. /\ target' = t /\ pc' = "commit" /\ outcome' = "none" /\ ~ Accepted'
          /\ UNCHANGED <<repo, acts, request, record, todo, since>>
      BY <1>1, <3>1, <3>2, GoesOn DEF Stages
    <3>4. /\ HasTip /\ HasTip' /\ ~ HasCommit' /\ ~ PastHead' /\ ~ PastStatus' /\ ~ HasBase'
          /\ ~ Judged' /\ Unjudged /\ pc' # "primaryRef" /\ pc' # "done"
          /\ pc' \notin {"previousTip", "isAncestor", "replay"}
      BY <1>1, <3>3 DEF HasTip, HasRef, HasCommit, PastHead, PastStatus, HasBase, Judged, Unjudged
    <3> HIDE DEF t, f
    <3>5. Typed'
      BY <2>1, <3>2, <3>3, <3>4 DEF IInv, Typed, TypeOK, Stages, Targets
    <3>6. Held'
      BY <3>2, <3>3, <3>4 DEF IInv, Held
    <3>7. Primary'
      BY <2>2, <2>4, <3>2, <3>3, <3>4 DEF Primary
    <3>8. Seen'
      BY <3>2, <3>3, <3>4 DEF IInv, Seen
    <3>9. QED
      BY <3>5, <3>6, <3>7, <3>8 DEF IInv
  <2>5. QED
    BY <2>3, <2>4
<1>6. QED
  BY <1>3, <1>4, <1>5

(* The commit is the tip that was read.                                    *)
LEMMA ResolveCommitStep == ASSUME IInv, Still, ResolveCommit PROVE IInv'
<1> DEFINE c == Resolve(repo, request.commit)
           t == [target EXCEPT !.commit = c]
<1>1. /\ pc = "commit" /\ pc # "done" /\ HasTip /\ HasRef /\ Unjudged
      /\ outcome = "none" /\ ~ Accepted /\ target \in Targets
  BY DEF ResolveCommit, IInv, Typed, TypeOK, Accepted, Targets, HasTip, HasRef, Unjudged
<1>2. CASE c = None
  <2>1. Fail("commitNotFound") /\ "commitNotFound" \in Failures
    BY <1>2 DEF ResolveCommit, Failures
  <2>2. ~ Valid(repo)
    BY <1>2 DEF Valid
  <2>3. QED
    BY <1>1, <2>1, <2>2, FailStep
<1>3. CASE c # None /\ c # target.tip
  <2>1. Fail("notTheTip") /\ "notTheTip" \in Failures
    BY <1>3 DEF ResolveCommit, Failures
  <2>2. since.quiet => ~ Valid(repo)
    BY <1>1, <1>3 DEF IInv, Seen, Valid
  <2>3. QED
    BY <1>1, <2>1, <2>2, FailStep
<1>4. CASE c # None /\ c = target.tip
  <2>1. Found(t, "head")
    BY <1>4 DEF ResolveCommit
  <2>2. c \in Commits /\ c \in repo.objects
    BY <1>1, <1>4, Reads, ResolvedIsThere DEF Targets
  <2>3. t \in Targets /\ t.tip = target.tip /\ t.ref = target.ref /\ t.commit = c
        /\ t.rewritten = target.rewritten
    BY <1>1, <2>2 DEF Targets
  <2>4. /\ target' = t /\ pc' = "head" /\ outcome' = "none" /\ ~ Accepted'
        /\ UNCHANGED <<repo, acts, request, record, todo, since>>
    BY <1>1, <2>1, <2>3, GoesOn DEF Stages
  <2>5. /\ ~ PastHead' /\ ~ PastStatus' /\ ~ HasBase'
        /\ ~ Judged' /\ pc' # "primaryRef" /\ pc' # "done"
        /\ pc' \notin {"previousTip", "isAncestor", "replay"}
    BY <2>4 DEF PastHead, PastStatus, HasBase, Judged
  <2> HIDE DEF t, c
  <2>6. Typed'
    BY <1>1, <1>4, <2>3, <2>4, <2>5 DEF IInv, Typed, TypeOK, Stages, Targets
  <2>7. Held'
    BY <1>1, <1>4, <2>2, <2>3, <2>4, <2>5 DEF IInv, Held
  <2>8. Primary'
    BY <1>1, <2>3, <2>4, <2>5 DEF IInv, Primary
  <2>9. Seen'
    BY <1>1, <2>3, <2>4, <2>5 DEF IInv, Seen, c
  <2>10. QED
    BY <2>6, <2>7, <2>8, <2>9 DEF IInv
<1>5. QED
  BY <1>2, <1>3, <1>4

(* ... and HEAD at this step.                                              *)
LEMMA ResolveHeadStep == ASSUME IInv, Still, ResolveHead PROVE IInv'
<1> DEFINE c == HeadCommit(repo)
<1>1. /\ pc = "head" /\ pc # "done" /\ HasTip /\ HasRef /\ HasCommit /\ Unjudged
      /\ outcome = "none" /\ ~ Accepted /\ target \in Targets
  BY DEF ResolveHead, IInv, Typed, TypeOK, Accepted, Targets, HasTip, HasRef, HasCommit, Unjudged
<1>2. since.quiet /\ Valid(repo) => c = target.commit
  BY <1>1 DEF IInv, Seen, Valid
<1>3. CASE c = None
  <2>1. Fail("commitNotFound") /\ "commitNotFound" \in Failures
    BY <1>3 DEF ResolveHead, Failures
  <2>2. ~ Valid(repo)
    BY <1>3 DEF Valid
  <2>3. QED
    BY <1>1, <2>1, <2>2, FailStep
<1>4. CASE c # None /\ c # target.commit
  <2>1. Fail("notHEAD") /\ "notHEAD" \in Failures
    BY <1>4 DEF ResolveHead, Failures
  <2>2. QED
    BY <1>1, <1>2, <1>4, <2>1, FailStep
<1>5. CASE c # None /\ c = target.commit
  <2>1. Found(target, "status")
    BY <1>5 DEF ResolveHead
  <2>2. /\ target' = target /\ pc' = "status" /\ outcome' = "none" /\ ~ Accepted'
        /\ UNCHANGED <<repo, acts, request, record, todo, since>>
    BY <1>1, <2>1, GoesOn DEF Stages
  <2>3. /\ ~ PastStatus' /\ ~ HasBase'
        /\ ~ Judged' /\ pc' # "primaryRef" /\ pc' # "done"
        /\ pc' \notin {"previousTip", "isAncestor", "replay"}
    BY <2>2 DEF PastStatus, HasBase, Judged
  <2>4. Typed'
    BY <1>1, <2>2, <2>3 DEF IInv, Typed, TypeOK, Stages
  <2>5. Held'
    BY <1>1, <1>5, <2>2, <2>3 DEF IInv, Held
  <2>6. Primary'
    BY <1>1, <2>2, <2>3 DEF IInv, Primary
  <2>7. Seen'
    BY <1>1, <1>5, <2>2, <2>3 DEF IInv, Seen
  <2>8. QED
    BY <2>4, <2>5, <2>6, <2>7 DEF IInv
<1>6. QED
  BY <1>3, <1>4, <1>5

(* The worktree is clean at this step.                                     *)
LEMMA RequireCleanStep == ASSUME IInv, Still, RequireClean PROVE IInv'
<1>1. /\ pc = "status" /\ pc # "done" /\ HasTip /\ HasRef /\ HasCommit /\ PastHead /\ Unjudged
      /\ outcome = "none" /\ ~ Accepted /\ target \in Targets
  BY DEF RequireClean, IInv, Typed, TypeOK, Accepted, Targets, HasTip, HasRef, HasCommit, PastHead, Unjudged
<1>2. CASE repo.dirty
  <2>1. Fail("dirtyWorktree") /\ "dirtyWorktree" \in Failures
    BY <1>2 DEF RequireClean, Failures
  <2>2. ~ Valid(repo)
    BY <1>2 DEF Valid
  <2>3. QED
    BY <1>1, <2>1, <2>2, FailStep
<1>3. CASE ~ repo.dirty
  <2>1. Found(target, "mergeBase")
    BY <1>3 DEF RequireClean
  <2>2. /\ target' = target /\ pc' = "mergeBase" /\ outcome' = "none" /\ ~ Accepted'
        /\ UNCHANGED <<repo, acts, request, record, todo, since>>
    BY <1>1, <2>1, GoesOn DEF Stages
  <2>3. /\ ~ HasBase' /\ ~ Judged' /\ pc' # "primaryRef" /\ pc' # "done"
        /\ pc' \notin {"previousTip", "isAncestor", "replay"}
    BY <2>2 DEF HasBase, Judged
  <2>4. Typed'
    BY <1>1, <2>2, <2>3 DEF IInv, Typed, TypeOK, Stages
  <2>5. Held'
    BY <1>1, <2>2, <2>3 DEF IInv, Held
  <2>6. Primary'
    BY <1>1, <2>2, <2>3 DEF IInv, Primary
  <2>7. Seen'
    BY <1>1, <1>3, <2>2, <2>3 DEF IInv, Seen
  <2>8. QED
    BY <2>4, <2>5, <2>6, <2>7 DEF IInv
<1>4. QED
  BY <1>2, <1>3

(* A merge base is behind both commits.                                    *)
LEMMA BasesAreBehind ==
  ASSUME NEW a \in Commits, NEW b \in Commits, NEW m \in MergeBases(a, b)
  PROVE  m \in Commits /\ m \in Ancestry[b]
BY Constants DEF MergeBases

(* Any merge base will do.                                                 *)
LEMMA MergeBaseStep == ASSUME IInv, Still, MergeBase PROVE IInv'
<1> DEFINE bases == MergeBases(repo.refs[target.ref], target.commit)
           next == IF record = None THEN "instructions" ELSE "previousTip"
<1>1. /\ pc = "mergeBase" /\ pc # "done" /\ HasTip /\ HasRef /\ HasCommit /\ PastHead /\ PastStatus
      /\ Unjudged /\ outcome = "none" /\ ~ Accepted /\ target \in Targets
  BY DEF MergeBase, IInv, Typed, TypeOK, Accepted, Targets, HasTip, HasRef, HasCommit, PastHead,
         PastStatus, Unjudged
<1>2. repo.refs[target.ref] \in Commits /\ target.commit \in Commits
  <2>1. target.ref \in Refs /\ target.commit \in Commits
    BY <1>1 DEF IInv, Typed, TypeOK, Targets
  <2>2. repo.refs[target.ref] # None
    BY DEF MergeBase
  <2>3. QED
    BY <2>1, <2>2, Reads, HeadsAreCommits
<1>3. CASE bases = {}
  <2>1. Fail("noMergeBase") /\ "noMergeBase" \in Failures
    BY <1>3 DEF MergeBase, Failures
  <2>2. since.quiet => ~ Valid(repo)
    BY <1>1, <1>3 DEF IInv, Held, Primary, Seen, Valid
  <2>3. QED
    BY <1>1, <2>1, <2>2, FailStep
<1>4. CASE bases # {}
  <2>1. PICK b \in bases : Found([target EXCEPT !.base = b], next)
    BY <1>4 DEF MergeBase
  <2> DEFINE t == [target EXCEPT !.base = b]
  <2>2. b \in Commits /\ b \in Ancestry[target.commit]
    BY <1>2, BasesAreBehind
  <2>3. t \in Targets /\ t.tip = target.tip /\ t.ref = target.ref /\ t.commit = target.commit
        /\ t.base = b /\ t.rewritten = target.rewritten
    BY <1>1, <2>2 DEF Targets
  <2>4. next \in Stages
    BY DEF Stages
  <2>5. /\ target' = t /\ pc' = next /\ outcome' = "none" /\ ~ Accepted'
        /\ UNCHANGED <<repo, acts, request, record, todo, since>>
    BY <1>1, <2>1, <2>3, <2>4, GoesOn
  <2>6. /\ HasTip' /\ HasRef' /\ HasCommit' /\ PastHead' /\ PastStatus' /\ HasBase'
        /\ ~ Unjudged' /\ (Judged' => record = None) /\ (pc' = "previousTip" => record # None)
        /\ pc' # "primaryRef" /\ pc' # "done" /\ pc' \notin {"isAncestor", "replay"}
    BY <2>5 DEF HasTip, HasRef, HasCommit, PastHead, PastStatus, HasBase, Judged, Unjudged
  <2> HIDE DEF t, next
  <2>7. Typed'
    BY <1>1, <1>2, <2>2, <2>3, <2>4, <2>5, <2>6, Constants DEF IInv, Typed, TypeOK, Targets
  <2>8. Held'
    BY <1>1, <2>2, <2>3, <2>5, <2>6 DEF IInv, Held
  <2>9. Primary'
    BY <1>1, <2>3, <2>5, <2>6 DEF IInv, Primary
  <2>10. Seen'
    BY <1>1, <2>3, <2>5, <2>6 DEF IInv, Seen
  <2>11. QED
    BY <2>7, <2>8, <2>9, <2>10 DEF IInv
<1>5. QED
  BY <1>3, <1>4

(* Once it has a base, a call that nobody disturbed asks for what is right.*)
LEMMA BaseIsValid ==
  ASSUME IInv, HasBase, since.quiet
  PROVE  Valid(repo)
<1>1. HasTip /\ HasRef /\ HasCommit /\ PastHead /\ PastStatus
  BY DEF HasTip, HasRef, HasCommit, PastHead, PastStatus
<1>2. since.primaryQuiet /\ target.tip # None /\ target.ref # None
  BY <1>1 DEF IInv, Typed, TypeOK, Seen
<1>3. PrimaryRefOf(repo) = target.ref /\ target.ref[2] # request.branch
  BY <1>1, <1>2 DEF IInv, Primary
<1>4. target.commit = target.tip
  BY <1>1 DEF IInv, Held
<1>5. /\ target.tip = Tip(repo, request.branch) /\ target.commit = Resolve(repo, request.commit)
      /\ HeadCommit(repo) = target.commit /\ ~ repo.dirty
      /\ target.base \in MergeBases(repo.refs[target.ref], target.commit)
  BY <1>1 DEF IInv, Seen
<1>6. QED
  BY <1>2, <1>3, <1>4, <1>5 DEF Valid

(* The call moves on between the steps that come after the merge base.     *)
LEMMA BaseStaysStep ==
  ASSUME IInv, Still, HasBase, pc # "done", NEW next \in {"isAncestor", "replay", "instructions", "clone"},
         NEW t \in Targets, Found(t, next), pc = "previousTip" \/ pc = "isAncestor" \/ t = target,
         next # "isAncestor" => (since.kept =>
           (t.rewritten <=> record # None /\ record.commit \notin Ancestry[target.commit])),
         next \in {"isAncestor", "replay"} => record # None,
         /\ t.tip = target.tip /\ t.ref = target.ref /\ t.commit = target.commit /\ t.base = target.base
  PROVE  IInv'
<1>1. /\ target' = t /\ pc' = next /\ outcome' = "none" /\ ~ Accepted /\ ~ Accepted'
      /\ UNCHANGED <<repo, acts, request, record, todo, since>>
  BY GoesOn DEF Stages
<1>2. HasTip /\ HasRef /\ HasCommit /\ PastHead /\ PastStatus
  BY DEF HasTip, HasRef, HasCommit, PastHead, PastStatus
<1>3. /\ HasTip' /\ HasRef' /\ HasCommit' /\ PastHead' /\ PastStatus' /\ HasBase'
      /\ ~ Unjudged' /\ (Judged' => next # "isAncestor") /\ pc' # "done" /\ pc' # "primaryRef"
      /\ (pc' \in {"previousTip", "isAncestor", "replay"} => next \in {"isAncestor", "replay"})
  BY <1>1 DEF HasTip, HasRef, HasCommit, PastHead, PastStatus, HasBase, Judged, Unjudged
<1>4. Typed'
  <2>1. pc' \in Stages
    BY <1>1 DEF Stages
  <2>2. /\ t.tip # None /\ t.ref # None /\ t.commit # None /\ t.base # None
    BY <1>2 DEF IInv, Typed, TypeOK
  <2>3. QED
    BY <1>1, <1>3, <2>1, <2>2 DEF IInv, Typed, TypeOK, Targets
<1>5. Held'
  BY <1>1, <1>2, <1>3 DEF IInv, Held
<1>6. Primary'
  BY <1>1, <1>2, <1>3 DEF IInv, Primary
<1>7. Seen'
  BY <1>1, <1>2, <1>3 DEF IInv, Seen
<1>8. QED
  BY <1>4, <1>5, <1>6, <1>7 DEF IInv

(* The call is answered, by the reviewer or from the record.               *)
LEMMA AcceptStep ==
  ASSUME IInv, Still, HasBase, pc # "done", NEW what \in {"accepted", "replayed"}, Return(what),
         UNCHANGED <<todo, target, since>>,
         since.kept =>
           (target.rewritten <=> record # None /\ record.commit \notin Ancestry[target.commit])
  PROVE  IInv'
<1>1. /\ pc' = "done" /\ outcome' = what /\ Accepted'
      /\ UNCHANGED <<repo, acts, request, record, todo, target, since>>
  BY DEF Return, Still, Accepted
<1>2. HasTip /\ HasRef /\ HasCommit /\ PastHead /\ PastStatus
  BY DEF HasTip, HasRef, HasCommit, PastHead, PastStatus
<1>3. /\ HasTip' /\ HasRef' /\ HasCommit' /\ PastHead' /\ PastStatus' /\ HasBase'
      /\ ~ Unjudged' /\ Judged' /\ LetThrough' /\ pc' # "primaryRef"
      /\ pc' \notin {"previousTip", "isAncestor", "replay"}
  BY <1>1 DEF HasTip, HasRef, HasCommit, PastHead, PastStatus, HasBase, Judged, Unjudged, LetThrough
<1>4. Typed'
  BY <1>1, <1>2, <1>3 DEF IInv, Typed, TypeOK
<1>5. Held'
  BY <1>1, <1>2, <1>3 DEF IInv, Held
<1>6. Primary'
  BY <1>1, <1>2, <1>3 DEF IInv, Primary
<1>7. Seen'
  <2>1. since.quiet => Valid(repo)
    BY BaseIsValid
  <2>2. Valid(repo)' = Valid(repo)
    BY <1>1 DEF Valid
  <2>3. QED
    BY <1>1, <1>2, <1>3, <2>1, <2>2 DEF IInv, Seen
<1>8. QED
  BY <1>4, <1>5, <1>6, <1>7 DEF IInv

(* A commit that no longer exists is behind nothing that does.             *)
LEMMA PreviousTipStep == ASSUME IInv, Still, PreviousTip PROVE IInv'
<1>1. pc = "previousTip" /\ pc # "done" /\ HasBase /\ HasCommit
  BY DEF PreviousTip, HasBase, HasCommit
<1>2. record # None /\ (since.kept => target.commit \in repo.objects)
  BY <1>1 DEF IInv, Held
<1>3. CASE record.commit \in repo.objects
  <2>1. Found(target, "isAncestor")
    BY <1>3 DEF PreviousTip
  <2>2. QED
    BY <1>1, <1>2, <2>1, Reads, BaseStaysStep
<1>4. CASE record.commit \notin repo.objects
  <2> DEFINE t == [target EXCEPT !.rewritten = TRUE]
  <2>1. Found(t, "replay")
    BY <1>4 DEF PreviousTip
  <2>2. /\ t \in Targets /\ t.rewritten = TRUE
        /\ t.tip = target.tip /\ t.ref = target.ref /\ t.commit = target.commit /\ t.base = target.base
    BY Reads DEF Targets
  <2>3. since.kept => record.commit \notin Ancestry[target.commit]
    BY <1>2, <1>4, Reads DEF Sound
  <2> HIDE DEF t
  <2>4. QED
    BY <1>1, <1>2, <2>1, <2>2, <2>3, BaseStaysStep
<1>5. QED
  BY <1>3, <1>4

(* The history is judged by ancestry.                                      *)
LEMMA IsAncestorStep == ASSUME IInv, Still, IsAncestor PROVE IInv'
<1> DEFINE lost == record.commit \notin Ancestry[target.commit]
           t == [target EXCEPT !.rewritten = lost]
<1>1. pc = "isAncestor" /\ pc # "done" /\ HasBase /\ Found(t, "replay")
  BY DEF IsAncestor, HasBase
<1>2. record # None
  BY <1>1 DEF IInv, Held
<1>3. lost \in BOOLEAN
  OBVIOUS
<1> HIDE DEF lost
<1>4. /\ t \in Targets /\ t.rewritten = lost
      /\ t.tip = target.tip /\ t.ref = target.ref /\ t.commit = target.commit /\ t.base = target.base
  BY <1>3, Reads DEF Targets
<1>5. t.rewritten <=> record.commit \notin Ancestry[target.commit]
  BY <1>4 DEF lost
<1> HIDE DEF t
<1>6. QED
  BY <1>1, <1>2, <1>4, <1>5, BaseStaysStep

(* After the verdict on the history it does not change.                    *)
LEMMA ReplayStep == ASSUME IInv, Still, Replay PROVE IInv'
<1>1. pc = "replay" /\ pc # "done" /\ HasBase /\ Judged
  BY DEF Replay, HasBase, Judged
<1>2. since.kept =>
        (target.rewritten <=> record # None /\ record.commit \notin Ancestry[target.commit])
  BY <1>1 DEF IInv, Held
<1>3. CASE Return("replayed") /\ UNCHANGED <<todo, target, since>>
  BY <1>1, <1>2, <1>3, AcceptStep
<1>4. CASE Found(target, "instructions")
  BY <1>1, <1>2, <1>4, Reads, BaseStaysStep
<1>5. QED
  BY <1>3, <1>4 DEF Replay

(* Instructions are refused only of a target that is valid.                *)
LEMMA ReadInstructionsStep == ASSUME IInv, Still, ReadInstructions PROVE IInv'
<1>1. pc = "instructions" /\ pc # "done" /\ HasBase /\ Judged
  BY DEF ReadInstructions, HasBase, Judged
<1>2. since.kept =>
        (target.rewritten <=> record # None /\ record.commit \notin Ancestry[target.commit])
  BY <1>1 DEF IInv, Held
<1>3. CASE target.commit \in Unusable
  <2>1. Fail("unusableInstructions") /\ "unusableInstructions" \in Failures
    BY <1>3 DEF ReadInstructions, Failures
  <2>2. since.quiet => Valid(repo)
    BY <1>1, BaseIsValid
  <2>3. QED
    BY <1>1, <2>1, <2>2, FailStep
<1>4. CASE target.commit \notin Unusable /\ request.build
  <2>1. Found(target, "clone")
    BY <1>4 DEF ReadInstructions
  <2>2. QED
    BY <1>1, <1>2, <2>1, Reads, BaseStaysStep
<1>5. CASE target.commit \notin Unusable /\ ~ request.build
  <2>1. Return("accepted") /\ UNCHANGED <<todo, target, since>>
    BY <1>5 DEF ReadInstructions
  <2>2. QED
    BY <1>1, <1>2, <2>1, AcceptStep
<1>6. QED
  BY <1>3, <1>4, <1>5

(* A clone adds nothing to what is known of the target.                    *)
LEMMA CloneDetachedStep == ASSUME IInv, Still, CloneDetached PROVE IInv'
<1>1. pc = "clone" /\ pc # "done" /\ HasBase /\ Judged
  BY DEF CloneDetached, HasBase, Judged
<1>2. since.kept =>
        (target.rewritten <=> record # None /\ record.commit \notin Ancestry[target.commit])
  BY <1>1 DEF IInv, Held
<1>3. QED
  BY <1>1, <1>2, AcceptStep DEF CloneDetached

(* A command may fail at any step, which says nothing.                     *)
LEMMA CommandFailsStep == ASSUME IInv, Still, CommandFails PROVE IInv'
<1>1. pc # "done" /\ Fail("commandFailed") /\ "commandFailed" \in Failures
  BY DEF CommandFails, Failures
<1>2. QED
  BY <1>1, FailStep

-----------------------------------------------------------------------------
(* Theorems.                                                               *)

(* For any history, repositories, requests and number of acts.             *)
THEOREM IInvHolds == Spec => []IInv
<1>1. Init => IInv
  <2> SUFFICES ASSUME Init PROVE IInv
    OBVIOUS
  <2>1. /\ acts = 0 /\ pc = "resolve" /\ todo = << >> /\ target = NoTarget /\ outcome = "none"
        /\ since = Undisturbed /\ repo \in Repos /\ request \in Requests /\ record \in Records
    BY DEF Init
  <2>2. repo \in Repositories /\ Sound(repo) /\ request.branch \in Names /\ 0 \in 0 .. MaxActs
    BY <2>1, TargetAssumption
  <2>3. /\ ~ Accepted /\ ~ HasTip /\ ~ HasRef /\ ~ HasCommit /\ ~ PastHead /\ ~ PastStatus /\ ~ HasBase
        /\ ~ Judged
    BY <2>1 DEF Accepted, HasTip, HasRef, HasCommit, PastHead, PastStatus, HasBase, Judged
  <2>4. /\ since.tips = {Tip(repo, request.branch)} /\ since.heads = {HeadCommit(repo)}
        /\ since.primaryQuiet /\ since.kept
        /\ since \in [tips : SUBSET (Commits \cup {None}), heads : SUBSET (Commits \cup {None}),
                      quiet : BOOLEAN, primaryQuiet : BOOLEAN, kept : BOOLEAN]
    BY <2>1, <2>2, HeadsAreCommits DEF Undisturbed
  <2>5. target \in Targets /\ ~ target.rewritten
    BY <2>1 DEF NoTarget, Targets
  <2>6. Typed
    BY <2>1, <2>2, <2>3, <2>4, <2>5 DEF Typed, TypeOK, Stages, Targets
  <2>7. Held /\ Primary /\ Seen
    BY <2>1, <2>3, <2>4, <2>5 DEF Held, Primary, Seen
  <2>8. QED
    BY <2>6, <2>7 DEF IInv
<1>2. IInv /\ [Next]_vars => IInv'
  <2> SUFFICES ASSUME IInv, [Next]_vars PROVE IInv'
    OBVIOUS
  <2>1. CASE Author
    <3>1. Sane
      BY Reads DEF Sane
    <3>2. QED
      BY <2>1, <3>1, AuthorActs, ActStep
  <2>2. CASE Call
    <3>1. Still /\ Step
      BY <2>2 DEF Call, Still
    <3>2. QED
      BY <3>1, ResolveBranchStep, AcquireWorkflowLockStep, ResolveTipStep, RemoteHeadNameStep,
         PrimaryRefStep, ResolveCommitStep, ResolveHeadStep, RequireCleanStep, MergeBaseStep,
         PreviousTipStep, IsAncestorStep, ReplayStep, ReadInstructionsStep, CloneDetachedStep,
         CommandFailsStep DEF Step
  <2>3. CASE UNCHANGED vars
    <3>1. UNCHANGED <<repo, acts, request, record, pc, todo, target, outcome, since>>
      BY <2>3 DEF vars
    <3>2. Typed'
      BY <3>1 DEF IInv, Typed, TypeOK, HasTip, HasRef, HasCommit, HasBase, Accepted
    <3>3. /\ HasTip' = HasTip /\ HasRef' = HasRef /\ HasCommit' = HasCommit /\ PastHead' = PastHead
          /\ PastStatus' = PastStatus /\ HasBase' = HasBase /\ Judged' = Judged /\ Unjudged' = Unjudged
      BY <3>1 DEF HasTip, HasRef, HasCommit, PastHead, PastStatus, HasBase, Judged, Unjudged, Accepted
    <3>4. Held'
      BY <3>1, <3>3 DEF IInv, Held
    <3>5. Tried' = Tried
      BY <3>1 DEF Tried
    <3>6. Primary'
      BY <3>1, <3>3, <3>5 DEF IInv, Primary
    <3>7. Valid(repo)' = Valid(repo)
      BY <3>1 DEF Valid
    <3>8. Seen'
      BY <3>1, <3>3, <3>7 DEF IInv, Seen, LetThrough
    <3>9. QED
      BY <3>2, <3>4, <3>6, <3>8 DEF IInv
  <2>4. QED
    BY <2>1, <2>2, <2>3 DEF Next
<1>3. QED
  BY <1>1, <1>2, PTL DEF Spec

(* The types, and that a field of the target is known where the call needs *)
(* it (target.go, ValidateTarget).                                         *)
THEOREM TypeCorrect == Spec => []TypeOK
<1>1. IInv => TypeOK
  BY DEF IInv, Typed
<1>2. QED
  BY <1>1, IInvHolds, PTL

(* With an author who keeps still, a request is let through exactly when   *)
(* it may be (target.go, ValidateTarget).                                  *)
THEOREM Exact == Spec => []UndisturbedIsExact
<1>1. IInv => UndisturbedIsExact
  <2> SUFFICES ASSUME IInv, pc = "done", since.quiet, outcome # "commandFailed" PROVE UndisturbedIsExact
    BY DEF UndisturbedIsExact
  <2>1. (outcome \in {"accepted", "replayed", "unusableInstructions"}) <=> Valid(repo)
    BY DEF IInv, Seen, LetThrough
  <2>2. ASSUME outcome = "accepted"
        PROVE  /\ target.base \in MergeBases(repo.refs[PrimaryRefOf(repo)], target.commit)
               /\ target.rewritten <=> record # None /\ record.commit \notin Ancestry[target.commit]
    <3>1. HasBase /\ HasRef /\ HasCommit /\ Judged
      BY <2>2 DEF Accepted, HasBase, HasRef, HasCommit, Judged
    <3>2. since.primaryQuiet /\ since.kept
          /\ target.base \in MergeBases(repo.refs[target.ref], target.commit)
      BY <3>1 DEF IInv, Seen
    <3>3. PrimaryRefOf(repo) = target.ref
      BY <3>1, <3>2 DEF IInv, Primary
    <3>4. target.rewritten <=> record # None /\ record.commit \notin Ancestry[target.commit]
      BY <3>1, <3>2 DEF IInv, Held
    <3>5. QED
      BY <3>2, <3>3, <3>4
  <2>3. QED
    BY <2>1, <2>2 DEF UndisturbedIsExact
<1>2. QED
  BY <1>1, IInvHolds, PTL

(* With any author, a commit that goes to the reviewer was the branch's    *)
(* tip and HEAD under the lock, and what the call says of it is true       *)
(* (target.go, ValidateTarget).                                            *)
THEOREM TargetIsSound == Spec => []TargetHolds
<1>1. IInv => TargetHolds
  <2> SUFFICES ASSUME IInv, outcome = "accepted" PROVE TargetHolds
    BY DEF TargetHolds
  <2>1. HasBase /\ HasRef /\ HasTip /\ HasCommit /\ PastHead /\ Judged
    BY DEF Accepted, HasBase, HasRef, HasTip, HasCommit, PastHead, Judged
  <2>2. since.primaryQuiet => PrimaryRefOf(repo)[2] # request.branch
    BY <2>1 DEF IInv, Primary
  <2>3. QED
    BY <2>1, <2>2 DEF IInv, Held, TargetHolds
<1>2. QED
  BY <1>1, IInvHolds, PTL
=============================================================================
