-------------------------- MODULE TurnWatcherProofs --------------------------
(***************************************************************************)
(* Proofs about TurnWatcher, for any notifications, in any number, of any  *)
(* turns: what the watcher has accumulated is a function of the log.       *)
(***************************************************************************)
EXTENDS TurnWatcher, FiniteSetTheorems, SequenceTheorems, TLAPS

-----------------------------------------------------------------------------
(* The inductive invariant.                                                *)

(* The texts a report can carry whole.                                     *)
Vals == {0} \cup {e.val : e \in Events}

Outcomes == [kind : {"none", "review", "failed", "cancelled", "closed", "error"},
             text : 0 .. MaxText \cup {e.val : e \in Events}, usage : Nat]

Typed ==
  /\ TypeOK
  /\ outcome \in Outcomes
  /\ watcher.review \in Vals
  /\ final.review \in Vals

(* The turn the log establishes, and its valid usage reports.              *)
Named == IF Establishing = {} THEN NoTurn ELSE log[Min(Establishing)].turn

Usages == {i \in Own : log[i].kind = "usage" /\ log[i].val # 0}

HasMin(S) == S # {} => \E m \in S : \A x \in S : m <= x

HasMax(S) == S # {} => \E m \in S : \A x \in S : x <= m

(* Min and Max choose among the positions of the log.                      *)
Bounded ==
  /\ HasMin(Establishing)
  /\ HasMin(Ends)
  /\ HasMax(BodyOf("review"))
  /\ HasMax(Ends \cap Body)
  /\ HasMax(Usages)

(* What the watcher holds is what the log says.                            *)
Told ==
  /\ watcher.turn = Named
  /\ watcher.done = (IF Ends = {} THEN 0 ELSE 1)
  /\ watcher.usage = SaidUsage
  /\ watcher.review = SaidReview
  /\ ~ watcher.overflow => /\ watcher.messages = Joined(BodyOf("message"))
                           /\ watcher.deltas = Total(BodyOf("delta"))

SameText(v, w) ==
  v.review = w.review /\ v.messages = w.messages /\ v.deltas = w.deltas /\ v.overflow = w.overflow

(* What Review has read of a finished turn still stands.                   *)
Kept ==
  /\ pc \in {"final", "usageGrace", "answer"} => Finished(watcher)
  /\ pc \in {"usageGrace", "answer"} => SameText(final, watcher)
  /\ pc # "returned" => outcome.kind = "none"
  /\ outcome.kind = "review" =>
       Finished(watcher) /\ outcome.text = Text(watcher) /\ outcome.text # 0

IInv == Typed /\ Bounded /\ Told /\ Kept

-----------------------------------------------------------------------------
(* Minima, maxima and totals of a log that grows.                          *)

(* The chosen minimum is one.                                              *)
LEMMA MinIs ==
  ASSUME NEW S \in SUBSET Nat, S # {}, HasMin(S)
  PROVE  Min(S) \in S /\ \A x \in S : Min(S) <= x
BY DEF Min, HasMin

(* The library's Max is a maximum, where there is one.                     *)
LEMMA MaxIs ==
  ASSUME NEW S \in SUBSET Nat, S # {}, HasMax(S)
  PROVE  Max(S) \in S /\ \A x \in S : x <= Max(S)
BY DEF Max, HasMax

(* A later position changes no minimum.                                    *)
LEMMA MinKept ==
  ASSUME NEW n \in Nat, NEW S \in SUBSET (1 .. n), S # {}, HasMin(S)
  PROVE  HasMin(S \cup {n + 1}) /\ Min(S \cup {n + 1}) = Min(S)
<1> DEFINE m == Min(S)
<1>1. m \in S /\ \A x \in S : m <= x
  BY MinIs
<1> HIDE DEF m
<1>2. m \in S \cup {n + 1} /\ \A x \in S \cup {n + 1} : m <= x
  BY <1>1
<1>3. HasMin(S \cup {n + 1})
  BY <1>2 DEF HasMin
<1>4. S \cup {n + 1} \in SUBSET Nat
  OBVIOUS
<1>5. Min(S \cup {n + 1}) \in S \cup {n + 1} /\ \A x \in S \cup {n + 1} : Min(S \cup {n + 1}) <= x
  BY <1>3, <1>4, MinIs
<1>6. ASSUME NEW a \in S \cup {n + 1}, \A x \in S \cup {n + 1} : a <= x
      PROVE  a = m
  <2>1. a <= m /\ m <= a
    BY <1>1, <1>2, <1>6
  <2>2. a \in Int /\ m \in Int
    BY <1>1, <1>4, <1>6
  <2>3. QED
    BY <2>1, <2>2
<1>7. QED
  BY <1>3, <1>5, <1>6 DEF m

(* A later position is the maximum.                                        *)
LEMMA MaxLast ==
  ASSUME NEW n \in Nat, NEW S \in SUBSET (1 .. n)
  PROVE  HasMax(S \cup {n + 1}) /\ Max(S \cup {n + 1}) = n + 1
<1>1. \A x \in S \cup {n + 1} : x <= n + 1
  OBVIOUS
<1>2. HasMax(S \cup {n + 1})
  BY <1>1 DEF HasMax
<1>3. S \cup {n + 1} \in SUBSET Nat
  OBVIOUS
<1>4. Max(S \cup {n + 1}) \in S \cup {n + 1} /\ \A x \in S \cup {n + 1} : x <= Max(S \cup {n + 1})
  BY <1>2, <1>3, MaxIs
<1>5. ASSUME NEW a \in S \cup {n + 1}, \A x \in S \cup {n + 1} : x <= a
      PROVE  a = n + 1
  BY <1>1, <1>3, <1>5
<1>6. QED
  BY <1>2, <1>4, <1>5

(* The only element is both.                                               *)
LEMMA Single ==
  ASSUME NEW n \in Nat
  PROVE  HasMin({n}) /\ HasMax({n}) /\ Min({n}) = n /\ Max({n}) = n
BY DEF HasMin, HasMax, Min, Max

(* Bytes and Followers, of any log.                                        *)
BytesIn(l, S) == UNION {{i} \X (1 .. l[i].val) : i \in S}

FollowersIn(l, S) == {i \in S : \E j \in S : j < i /\ l[j].val # 0}

(* A byte is one of the text of its report.                                *)
LEMMA ByteIs ==
  ASSUME NEW l, NEW S
  PROVE  \A c : c \in BytesIn(l, S) <=> \E i \in S : c \in {i} \X (1 .. l[i].val)
BY DEF BytesIn

(* Finitely many reports have finitely many bytes.                         *)
LEMMA BytesFinite ==
  ASSUME NEW n \in Nat, NEW S \in SUBSET (1 .. n), NEW l, \A i \in S : l[i].val \in Nat
  PROVE  IsFiniteSet(S) /\ IsFiniteSet(BytesIn(l, S))
<1> DEFINE T == {{i} \X (1 .. l[i].val) : i \in S}
           f == [i \in S |-> {i} \X (1 .. l[i].val)]
<1>1. IsFiniteSet(S)
  <2>1. IsFiniteSet(1 .. n)
    BY FS_Interval
  <2>2. QED
    BY <2>1, FS_Subset
<1>2. f \in Surjection(S, T)
  BY DEF Surjection
<1>3. IsFiniteSet(T)
  <2> HIDE DEF f, T
  <2>1. QED
    BY <1>1, <1>2, FS_Surjection
<1>4. ASSUME NEW X \in T
      PROVE  IsFiniteSet(X)
  <2>1. PICK i \in S : X = {i} \X (1 .. l[i].val)
    OBVIOUS
  <2>2. PICK v \in Nat : v = l[i].val
    OBVIOUS
  <2>3. IsFiniteSet(1 .. v)
    BY FS_Interval
  <2>4. IsFiniteSet({i})
    BY FS_Singleton
  <2>5. IsFiniteSet({i} \X (1 .. v))
    BY <2>3, <2>4, FS_Product
  <2>6. QED
    BY Zenon, <2>1, <2>2, <2>5
<1>5. IsFiniteSet(UNION T)
  <2> HIDE DEF T
  <2>1. QED
    BY <1>3, <1>4, FS_UNION
<1>6. QED
  BY <1>1, <1>5 DEF BytesIn

(* Neither looks at reports outside its set.                               *)
LEMMA BytesKept ==
  ASSUME NEW l, NEW k, NEW S, \A i \in S : k[i] = l[i]
  PROVE  BytesIn(k, S) = BytesIn(l, S) /\ FollowersIn(k, S) = FollowersIn(l, S)
<1>1. \A i \in S : {i} \X (1 .. k[i].val) = {i} \X (1 .. l[i].val)
  OBVIOUS
<1>2. \A c : c \in BytesIn(k, S) <=> c \in BytesIn(l, S)
  BY <1>1, ByteIs
<1>3. QED
  BY <1>2 DEF FollowersIn

(* A report adds what it carries.                                          *)
LEMMA TotalGrows ==
  ASSUME NEW l, NEW n \in Nat, NEW S \in SUBSET (1 .. n), \A i \in S : l[i].val \in Nat,
         NEW v \in Nat, l[n + 1].val = v
  PROVE  Cardinality(BytesIn(l, S \cup {n + 1})) = Cardinality(BytesIn(l, S)) + v
<1> DEFINE C == BytesIn(l, S)
           D == {n + 1} \X (1 .. v)
<1>1. BytesIn(l, S \cup {n + 1}) = C \cup D
  <2>1. \A c : c \in BytesIn(l, S \cup {n + 1}) <=> \E i \in S \cup {n + 1} : c \in {i} \X (1 .. l[i].val)
    BY ByteIs
  <2>2. \A c : c \in C <=> \E i \in S : c \in {i} \X (1 .. l[i].val)
    BY ByteIs
  <2> HIDE DEF C
  <2>3. {n + 1} \X (1 .. l[n + 1].val) = D
    OBVIOUS
  <2> HIDE DEF D
  <2>4. \A c : c \in BytesIn(l, S \cup {n + 1}) <=> c \in C \/ c \in D
    BY <2>1, <2>2, <2>3
  <2>5. QED
    BY <2>4
<1>2. IsFiniteSet(C)
  BY BytesFinite
<1>3. IsFiniteSet(D) /\ Cardinality(D) = v
  <2>1. IsFiniteSet({n + 1}) /\ Cardinality({n + 1}) = 1
    BY FS_Singleton
  <2>2. IsFiniteSet(1 .. v) /\ Cardinality(1 .. v) = IF 1 > v THEN 0 ELSE v - 1 + 1
    BY FS_Interval
  <2>3. Cardinality(1 .. v) = v
    BY <2>2
  <2>4. IsFiniteSet(D) /\ Cardinality(D) = 1 * Cardinality(1 .. v)
    BY <2>1, <2>2, FS_Product
  <2>5. QED
    BY <2>3, <2>4
<1>4. C \cap D = {}
  <2>1. \A i \in S : i # n + 1
    OBVIOUS
  <2>2. QED
    BY <2>1, ByteIs
<1> HIDE DEF C, D
<1>5. Cardinality(C \cup D) = Cardinality(C) + Cardinality(D) - Cardinality(C \cap D)
  BY <1>2, <1>3, FS_Union
<1>6. Cardinality(C) \in Nat
  BY <1>2, FS_CardinalityType
<1>7. Cardinality(C \cap D) = 0
  BY <1>4, FS_EmptySet
<1>8. Cardinality(C \cup D) = Cardinality(C) + v
  BY <1>3, <1>5, <1>6, <1>7
<1>9. QED
  BY <1>1, <1>8 DEF C

(* A report follows where one with a text came before it.                  *)
LEMMA FollowersGrow ==
  ASSUME NEW l, NEW n \in Nat, NEW S \in SUBSET (1 .. n)
  PROVE  Cardinality(FollowersIn(l, S \cup {n + 1}))
           = Cardinality(FollowersIn(l, S)) + (IF \E j \in S : l[j].val # 0 THEN 1 ELSE 0)
<1> DEFINE F == FollowersIn(l, S)
<1>1. F \in SUBSET (1 .. n) /\ n + 1 \notin F
  <2>1. F \subseteq S
    BY DEF FollowersIn
  <2>2. n + 1 \notin 1 .. n
    OBVIOUS
  <2> HIDE DEF F
  <2>3. QED
    BY <2>1, <2>2
<1>2. FollowersIn(l, S \cup {n + 1}) = IF \E j \in S : l[j].val # 0 THEN F \cup {n + 1} ELSE F
  <2>0. \A i \in S : i < n + 1 /\ ~ n + 1 < i
    OBVIOUS
  <2>1. \A i : i \in FollowersIn(l, S \cup {n + 1})
                 <=> i \in F \/ (i = n + 1 /\ \E j \in S : l[j].val # 0)
    <3>1. ASSUME NEW i \in S
          PROVE  i \in FollowersIn(l, S \cup {n + 1}) <=> i \in F
      BY <2>0 DEF FollowersIn
    <3>2. n + 1 \in FollowersIn(l, S \cup {n + 1}) <=> \E j \in S : l[j].val # 0
      <4>1. ~ n + 1 < n + 1
        OBVIOUS
      <4>2. \A j \in S \cup {n + 1} : j < n + 1 <=> j \in S
        BY <2>0, <4>1
      <4>3. n + 1 \in FollowersIn(l, S \cup {n + 1})
              <=> \E j \in S \cup {n + 1} : j < n + 1 /\ l[j].val # 0
        BY DEF FollowersIn
      <4>4. QED
        BY <4>2, <4>3
    <3>3. \A i : i \in FollowersIn(l, S \cup {n + 1}) => i \in S \/ i = n + 1
      BY DEF FollowersIn
    <3>4. \A i : i \in F => i \in S
      BY DEF FollowersIn
    <3>5. n + 1 \notin S
      BY <2>0
    <3>6. QED
      BY <3>1, <3>2, <3>3, <3>4, <3>5
  <2> HIDE DEF F
  <2>2. QED
    BY <2>1
<1>3. IsFiniteSet(F)
  <2>1. IsFiniteSet(1 .. n)
    BY FS_Interval
  <2>2. QED
    BY <1>1, <2>1, FS_Subset
<1>4. Cardinality(F) \in Nat /\ Cardinality(F \cup {n + 1}) = Cardinality(F) + 1
  <2> HIDE DEF F
  <2>1. QED
    BY <1>1, <1>3, FS_CardinalityType, FS_AddElement
<1> HIDE DEF F
<1>5. CASE \E j \in S : l[j].val # 0
  <2>1. FollowersIn(l, S \cup {n + 1}) = F \cup {n + 1}
    BY <1>2, <1>5
  <2>2. Cardinality(FollowersIn(l, S \cup {n + 1})) = Cardinality(F) + 1
    BY Zenon, <1>4, <2>1
  <2>3. QED
    BY <1>5, <2>2 DEF F
<1>6. CASE ~ \E j \in S : l[j].val # 0
  <2>1. FollowersIn(l, S \cup {n + 1}) = F
    BY <1>2, <1>6
  <2>2. Cardinality(FollowersIn(l, S \cup {n + 1})) = Cardinality(F)
    BY Zenon, <2>1
  <2>3. QED
    BY <1>4, <1>6, <2>2 DEF F
<1>7. QED
  BY <1>5, <1>6

(* Texts are joined to nothing only where there is none.                   *)
LEMMA NothingJoined ==
  ASSUME NEW l, NEW n \in Nat, NEW S \in SUBSET (1 .. n), \A i \in S : l[i].val \in Nat
  PROVE  /\ Cardinality(BytesIn(l, S)) \in Nat
         /\ Cardinality(FollowersIn(l, S)) \in Nat
         /\ Cardinality(BytesIn(l, S)) + Separator * Cardinality(FollowersIn(l, S)) = 0
              <=> \A j \in S : l[j].val = 0
<1> DEFINE B == BytesIn(l, S)
           F == FollowersIn(l, S)
<1>1. IsFiniteSet(B) /\ IsFiniteSet(F)
  <2>1. IsFiniteSet(S) /\ IsFiniteSet(B)
    BY BytesFinite
  <2>2. F \in SUBSET S
    BY DEF FollowersIn
  <2>3. QED
    BY <2>1, <2>2, FS_Subset
<1>2. B = {} <=> \A j \in S : l[j].val = 0
  <2>1. \A c : c \in B <=> \E i \in S : c \in {i} \X (1 .. l[i].val)
    BY ByteIs
  <2> HIDE DEF B
  <2>2. ASSUME NEW j \in S, l[j].val # 0
        PROVE  <<j, 1>> \in B
    <3>1. 1 \in 1 .. l[j].val
      <4>1. PICK v \in Nat : v = l[j].val
        OBVIOUS
      <4>2. v # 0
        BY <2>2, <4>1
      <4>3. 1 \in 1 .. v
        BY <4>2
      <4>4. QED
        BY ONLY <4>1, <4>3, Zenon
    <3>2. <<j, 1>> \in {j} \X (1 .. l[j].val)
      BY <3>1
    <3>3. QED
      BY <2>1, <3>2
  <2>3. ASSUME \A j \in S : l[j].val = 0
        PROVE  B = {}
    <3>1. 1 .. 0 = {}
      OBVIOUS
    <3>2. ASSUME NEW i \in S, NEW c, c \in {i} \X (1 .. l[i].val)
          PROVE  FALSE
      <4>1. c[2] \in 1 .. 0
        BY <2>3, <3>2
      <4>2. QED
        BY <3>1, <4>1
    <3>3. QED
      BY <2>1, <3>2
  <2>4. QED
    BY <2>2, <2>3
<1>3. B = {} => F = {}
  BY <1>2 DEF FollowersIn
<1> HIDE DEF B, F
<1>4. Cardinality(B) \in Nat /\ (Cardinality(B) = 0 <=> B = {})
  BY <1>1, FS_CardinalityType, FS_EmptySet
<1>5. Cardinality(F) \in Nat /\ (Cardinality(F) = 0 <=> F = {})
  BY <1>1, FS_CardinalityType, FS_EmptySet
<1>6. Cardinality(B) + Separator * Cardinality(F) = 0 <=> B = {}
  BY <1>3, <1>4, <1>5 DEF Separator
<1>7. QED
  BY <1>2, <1>4, <1>5, <1>6 DEF B, F

-----------------------------------------------------------------------------
(* One more report.                                                        *)

Establishes(e) == e.kind = "started" /\ e.turn # NoTurn

Mine(e) == Named # NoTurn /\ e.turn = Named /\ e.kind # "started"

EndKind(e) == e.kind \in {"completed", "failed"}

EndsIt(e) == Mine(e) /\ EndKind(e)

(* The sets of positions are such.                                         *)
LEMMA Positions ==
  ASSUME log \in Seq(Reports)
  PROVE  /\ Len(log) \in Nat
         /\ DOMAIN log = 1 .. Len(log)
         /\ Establishing \in SUBSET (1 .. Len(log))
         /\ Own \in SUBSET (1 .. Len(log))
         /\ Ends \in SUBSET Own
         /\ Body \in SUBSET Own
         /\ \A k : BodyOf(k) \in SUBSET Body
         /\ Usages \in SUBSET Own
<1>1. Len(log) \in Nat /\ DOMAIN log = 1 .. Len(log)
  OBVIOUS
<1>2. Own \in SUBSET (DOMAIN log)
  BY DEF Own
<1>3. Body \in SUBSET Own
  BY DEF Body, Ends
<1>4. QED
  BY <1>1, <1>2, <1>3 DEF Establishing, Ends, BodyOf, Usages

(* A log that has established a turn names it.                             *)
LEMMA NamedIs ==
  ASSUME log \in Seq(Reports), HasMin(Establishing)
  PROVE  /\ Establishing = {} => Named = NoTurn
         /\ Establishing # {} =>
              /\ Min(Establishing) \in Establishing
              /\ Named = log[Min(Establishing)].turn
              /\ Named # NoTurn
<1>1. Establishing \in SUBSET Nat
  BY Positions
<1>2. Establishing # {} => Min(Establishing) \in Establishing
  BY <1>1, MinIs
<1>3. QED
  BY <1>2 DEF Named, Establishing

(* A longer log.                                                           *)
LEMMA Appended ==
  ASSUME log \in Seq(Reports), NEW e \in Reports, log' = Append(log, e)
  PROVE  /\ log' \in Seq(Reports)
         /\ DOMAIN log' = DOMAIN log \cup {Len(log) + 1}
         /\ Len(log) + 1 \notin DOMAIN log
         /\ \A i \in DOMAIN log : log'[i] = log[i]
         /\ log'[Len(log) + 1] = e
<1>1. log' \in Seq(Reports) /\ Len(log') = Len(log) + 1 /\ Len(log) \in Nat
  BY AppendProperties
<1>2. DOMAIN log = 1 .. Len(log) /\ DOMAIN log' = 1 .. (Len(log) + 1)
  BY <1>1
<1>3. \A i \in 1 .. Len(log) : log'[i] = log[i]
  BY AppendProperties
<1>4. log'[Len(log) + 1] = e
  BY AppendProperties
<1>5. QED
  BY <1>1, <1>2, <1>3, <1>4

(* The first turn established stays it.                                    *)
LEMMA EstablishingStep ==
  ASSUME log \in Seq(Reports), NEW e \in Reports, log' = Append(log, e), HasMin(Establishing)
  PROVE  /\ Establishing' = Establishing \cup (IF Establishes(e) THEN {Len(log) + 1} ELSE {})
         /\ HasMin(Establishing')
         /\ Establishing # {} => Min(Establishing') = Min(Establishing)
         /\ Named' = IF Establishing = {} /\ Establishes(e) THEN e.turn ELSE Named
<1> DEFINE n == Len(log)
<1>0. n + 1 \in Nat
  BY Positions
<1>1. Establishing' = Establishing \cup (IF Establishes(e) THEN {n + 1} ELSE {})
  BY Appended DEF Establishing, Establishes
<1>2. n \in Nat /\ Establishing \in SUBSET (1 .. n)
  BY Positions
<1>3. HasMin(Establishing') /\ (Establishing # {} => Min(Establishing') = Min(Establishing))
  <2>1. CASE ~ Establishes(e)
    BY <1>1, <2>1
  <2>2. CASE Establishes(e) /\ Establishing = {}
    <3>1. Establishing' = {n + 1}
      BY <1>1, <2>2
    <3>2. QED
      BY <1>2, <2>2, <3>1, Single
  <2>3. CASE Establishes(e) /\ Establishing # {}
    <3>1. Establishing' = Establishing \cup {n + 1}
      BY <1>1, <2>3
    <3>2. QED
      BY <1>2, <2>3, <3>1, MinKept
  <2>4. QED
    BY <2>1, <2>2, <2>3
<1>4. CASE Establishing # {}
  <2>1. Min(Establishing) \in DOMAIN log /\ Establishing' # {}
    BY <1>1, <1>4, NamedIs, Positions
  <2>2. log'[Min(Establishing)] = log[Min(Establishing)]
    BY <2>1, Appended
  <2>3. Named' = Named
    BY <1>3, <1>4, <2>1, <2>2 DEF Named
  <2>4. QED
    BY <1>1, <1>3, <1>4, <2>3
<1>5. CASE Establishing = {} /\ Establishes(e)
  <2>1. Establishing' = {n + 1} /\ log'[n + 1] = e
    BY <1>1, <1>5, Appended
  <2>2. Min(Establishing') = n + 1
    <3>1. Min({n + 1}) = n + 1
      BY <1>0, Single
    <3>2. QED
      BY Zenon, <2>1, <3>1
  <2>3. Named' = e.turn
    BY <2>1, <2>2 DEF Named
  <2>4. QED
    BY <1>1, <1>3, <1>5, <2>3
<1>6. CASE Establishing = {} /\ ~ Establishes(e)
  <2>1. Establishing' = {}
    BY <1>1, <1>6
  <2>2. Named' = NoTurn /\ Named = NoTurn
    BY <1>6, <2>1 DEF Named
  <2>3. QED
    BY <1>1, <1>3, <1>6, <2>2
<1>7. QED
  BY <1>4, <1>5, <1>6

(* The turn's own reports are those that name it once it is established.   *)
LEMMA OwnStep ==
  ASSUME log \in Seq(Reports), NEW e \in Reports, log' = Append(log, e), HasMin(Establishing)
  PROVE  Own' = Own \cup (IF Mine(e) THEN {Len(log) + 1} ELSE {})
<1> DEFINE n == Len(log)
<1>0. n + 1 \in Nat
  BY Positions
<1>1. n \in Nat /\ DOMAIN log = 1 .. n /\ Establishing \in SUBSET (1 .. n)
  BY Positions
<1>2. CASE Establishing # {}
  <2> DEFINE m == Min(Establishing)
  <2>1. Establishing' # {} /\ Min(Establishing') = m
    BY <1>2, EstablishingStep
  <2>2. m \in Establishing /\ Named = log[m].turn /\ Named # NoTurn
    BY <1>2, NamedIs
  <2>3. m \in 1 .. n /\ log'[m] = log[m]
    BY <1>1, <2>2, Appended
  <2> HIDE DEF m
  <2>4. Own = {i \in DOMAIN log : i > m /\ log[i].turn = Named /\ log[i].kind # "started"}
    BY <1>2, <2>2 DEF Own, m
  <2>5. Own' = {i \in DOMAIN log' : i > m /\ log'[i].turn = Named /\ log'[i].kind # "started"}
    BY <2>1, <2>2, <2>3 DEF Own
  <2>6. n + 1 > m
    BY <1>1, <2>3
  <2>7. \A i : i \in Own' <=> i \in Own \/ (i = n + 1 /\ Mine(e))
    BY <2>2, <2>4, <2>5, <2>6, Appended DEF Mine
  <2>8. QED
    BY <2>7
<1>3. CASE Establishing = {}
  <2>1. Own = {} /\ Named = NoTurn /\ ~ Mine(e)
    BY <1>3 DEF Own, Named, Mine
  <2>2. CASE Establishes(e)
    <3>1. Establishing' = {n + 1}
      BY <1>3, <2>2, EstablishingStep
    <3>2. Min(Establishing') = n + 1
      <4>1. Min({n + 1}) = n + 1
        BY <1>0, Single
      <4>2. QED
        BY Zenon, <3>1, <4>1
    <3>3. \A i \in DOMAIN log' : ~ i > n + 1
      BY <1>1, Appended
    <3>4. Own' = {}
      BY <3>1, <3>2, <3>3 DEF Own
    <3>5. QED
      BY <2>1, <3>4
  <2>3. CASE ~ Establishes(e)
    <3>1. Establishing' = {}
      BY <1>3, <2>3, EstablishingStep
    <3>2. Own' = {}
      BY <3>1 DEF Own
    <3>3. QED
      BY <2>1, <3>2
  <2>4. QED
    BY <2>2, <2>3
<1>4. QED
  BY <1>2, <1>3

(* The body of the turn is closed by its first end.                        *)
LEMMA BodyStep ==
  ASSUME log \in Seq(Reports), NEW e \in Reports, log' = Append(log, e),
         HasMin(Establishing), HasMin(Ends)
  PROVE  /\ Ends' = Ends \cup (IF EndsIt(e) THEN {Len(log) + 1} ELSE {})
         /\ HasMin(Ends')
         /\ Body' = IF Ends # {} \/ ~ Mine(e) THEN Body ELSE Body \cup {Len(log) + 1}
         /\ Ends = {} => (Ends \cap Body)' = IF EndsIt(e) THEN {Len(log) + 1} ELSE {}
         /\ Ends # {} => (Ends \cap Body)' = Ends \cap Body
<1> DEFINE n == Len(log)
<1>0. n + 1 \in Nat
  BY Positions
<1>1. /\ n \in Nat
      /\ DOMAIN log = 1 .. n
      /\ Own \in SUBSET (1 .. n)
      /\ Ends \in SUBSET (1 .. n)
  BY Positions
<1>2. Own' = Own \cup (IF Mine(e) THEN {n + 1} ELSE {})
  BY OwnStep
<1>3. Ends' = Ends \cup (IF EndsIt(e) THEN {n + 1} ELSE {})
  <2>1. \A i : i \in Ends' <=> i \in Ends \/ (i = n + 1 /\ EndsIt(e))
    BY <1>1, <1>2, Appended DEF Ends, EndsIt, EndKind
  <2>2. QED
    BY <2>1
<1>4. CASE Ends # {}
  <2> DEFINE m == Min(Ends)
  <2>1. m \in Ends /\ m \in 1 .. n
    <3>1. Ends \in SUBSET Nat
      BY <1>1
    <3>2. QED
      BY <1>1, <1>4, <3>1, MinIs
  <2>2. HasMin(Ends') /\ Min(Ends') = m /\ Ends' # {}
    <3>1. CASE EndsIt(e)
      BY <1>1, <1>3, <1>4, <3>1, MinKept
    <3>2. CASE ~ EndsIt(e)
      BY <1>3, <1>4, <3>2
    <3>3. QED
      BY <3>1, <3>2
  <2> HIDE DEF m
  <2>3. Body = {i \in Own : i <= m} /\ Body' = {i \in Own' : i <= m}
    BY <1>4, <2>2 DEF Body, m
  <2>4. ~ n + 1 <= m
    BY <1>1, <2>1
  <2>5. Body' = Body
    BY <1>2, <2>3, <2>4
  <2>6. n + 1 \notin Body
    BY <2>3, <2>4
  <2>7. (Ends \cap Body)' = Ends \cap Body
    BY <1>3, <2>5, <2>6
  <2>8. QED
    BY <1>3, <1>4, <2>2, <2>5, <2>7
<1>5. CASE Ends = {} /\ EndsIt(e)
  <2>1. Ends' = {n + 1} /\ Mine(e)
    BY <1>3, <1>5 DEF EndsIt
  <2>2. HasMin(Ends') /\ Min(Ends') = n + 1
    <3>1. HasMin({n + 1}) /\ Min({n + 1}) = n + 1
      BY <1>0, Single
    <3>2. QED
      BY Zenon, <2>1, <3>1
  <2>3. Body = Own /\ Body' = {i \in Own' : i <= n + 1}
    BY <1>5, <2>1, <2>2 DEF Body
  <2>4. Body' = Body \cup {n + 1}
    <3>1. \A i \in Own' : i <= n + 1
      BY <1>1, <1>2
    <3>2. QED
      BY <1>2, <2>1, <2>3, <3>1
  <2>5. (Ends \cap Body)' = {n + 1}
    BY <2>1, <2>4
  <2>6. QED
    BY <1>3, <1>5, <2>1, <2>2, <2>4, <2>5
<1>6. CASE Ends = {} /\ ~ EndsIt(e)
  <2>1. Ends' = {}
    BY <1>3, <1>6
  <2>2. Body = Own /\ Body' = Own'
    BY <1>6, <2>1 DEF Body
  <2>3. HasMin(Ends')
    BY <2>1 DEF HasMin
  <2>4. (Ends \cap Body)' = {}
    BY <2>1
  <2>5. QED
    BY <1>2, <1>3, <1>6, <2>2, <2>3, <2>4
<1>7. QED
  BY <1>4, <1>5, <1>6

-----------------------------------------------------------------------------
(* What the watcher makes of a report.                                     *)

Takes(w, e) == ~ Ignores(w, e) /\ e.kind # "started" /\ Matches(w, e)

(* How the fields of v differ from those of w after report e.              *)
Adds(v, w, e) ==
  /\ v.turn = IF ~ Finished(w) /\ e.kind = "started" /\ w.turn = NoTurn THEN e.turn ELSE w.turn
  /\ v.review = IF Takes(w, e) /\ (e.kind = "review" \/ (EndKind(e) /\ w.review = 0))
                THEN e.val ELSE w.review
  /\ v.done = IF Takes(w, e) /\ EndKind(e) THEN w.done + 1 ELSE w.done
  /\ v.usage = IF Takes(w, e) /\ e.kind = "usage" /\ e.val # 0 THEN e.val ELSE w.usage
  /\ ~ v.overflow =>
       /\ ~ w.overflow
       /\ v.messages = IF Takes(w, e) /\ e.kind = "message"
                       THEN w.messages + e.val + (IF w.messages = 0 THEN 0 ELSE Separator)
                       ELSE w.messages
       /\ v.deltas = IF Takes(w, e) /\ e.kind = "delta" THEN w.deltas + e.val ELSE w.deltas
  /\ Finished(w) => SameText(v, w)

(* How those of v differ after a piece of n bytes is appended to text k.   *)
Gathers(v, w, k, n) ==
  /\ v.turn = w.turn /\ v.review = w.review /\ v.done = w.done /\ v.usage = w.usage
  /\ ~ v.overflow =>
       /\ ~ w.overflow
       /\ v.messages = IF k = "messages" THEN w.messages + n ELSE w.messages
       /\ v.deltas = IF k = "deltas" THEN w.deltas + n ELSE w.deltas

(* A piece that is collected is collected whole.                           *)
LEMMA CollectIs ==
  ASSUME NEW w \in Watchers, NEW k \in {"messages", "deltas"}, NEW n \in Nat
  PROVE  Collect(w, k, n) \in Watchers /\ Gathers(Collect(w, k, n), w, k, n)
<1> DEFINE v == Collect(w, k, n)
<1>1. w.messages \in 0 .. MaxText /\ w.deltas \in 0 .. MaxText /\ MaxText \in Nat
  BY TurnAssumption DEF Watchers
<1>2. CASE w.overflow
  <2>1. v = w
    BY <1>2 DEF Collect
  <2>2. QED
    BY <1>2, <2>1 DEF Gathers
<1>3. CASE ~ w.overflow /\ ~ FitsText(w[k], n)
  <2>1. v = [w EXCEPT !.overflow = TRUE]
    BY <1>3 DEF Collect
  <2> HIDE DEF v
  <2>2. v \in Watchers
    BY <2>1 DEF Watchers
  <2>3. /\ v.turn = w.turn /\ v.review = w.review /\ v.done = w.done /\ v.usage = w.usage
        /\ v.overflow
    BY <2>1 DEF Watchers
  <2>4. QED
    BY <2>2, <2>3 DEF Gathers, v
<1>4. CASE ~ w.overflow /\ FitsText(w[k], n) /\ k = "messages"
  <2>1. v = [w EXCEPT !.messages = w.messages + n] /\ w.messages + n <= MaxText
    BY <1>4 DEF Collect, FitsText
  <2>2. w.messages + n \in 0 .. MaxText
    BY <1>1, <2>1
  <2> HIDE DEF v
  <2>3. v \in Watchers
    BY <2>1, <2>2 DEF Watchers
  <2>4. /\ v.turn = w.turn /\ v.review = w.review /\ v.done = w.done /\ v.usage = w.usage
        /\ v.messages = w.messages + n /\ v.deltas = w.deltas
    BY <2>1 DEF Watchers
  <2>5. QED
    BY <1>4, <2>3, <2>4 DEF Gathers, v
<1>5. CASE ~ w.overflow /\ FitsText(w[k], n) /\ k = "deltas"
  <2>1. v = [w EXCEPT !.deltas = w.deltas + n] /\ w.deltas + n <= MaxText
    BY <1>5 DEF Collect, FitsText
  <2>2. w.deltas + n \in 0 .. MaxText
    BY <1>1, <2>1
  <2> HIDE DEF v
  <2>3. v \in Watchers
    BY <2>1, <2>2 DEF Watchers
  <2>4. /\ v.turn = w.turn /\ v.review = w.review /\ v.done = w.done /\ v.usage = w.usage
        /\ v.messages = w.messages /\ v.deltas = w.deltas + n
    BY <2>1 DEF Watchers
  <2>5. QED
    BY <1>5, <2>3, <2>4 DEF Gathers, v
<1>6. QED
  BY <1>2, <1>3, <1>4, <1>5

(* The separator is collected where a message was before.                  *)
LEMMA SeparatedIs ==
  ASSUME NEW w \in Watchers
  PROVE  /\ Separated(w) \in Watchers
         /\ Gathers(Separated(w), w, "messages", IF w.messages = 0 THEN 0 ELSE Separator)
<1>1. w.messages \in 0 .. MaxText /\ MaxText \in Nat
  BY TurnAssumption DEF Watchers
<1>2. CASE w.messages = 0
  BY <1>1, <1>2 DEF Separated, Gathers
<1>3. CASE w.messages # 0
  <2>1. Separated(w) = Collect(w, "messages", Separator) /\ Separator \in Nat
    BY <1>3 DEF Separated, Separator
  <2>2. QED
    BY <1>3, <2>1, CollectIs
<1>4. QED
  BY <1>2, <1>3

(* What one report adds to a watcher, field by field.                      *)
LEMMA HandleIs ==
  ASSUME NEW w \in Watchers, NEW e \in Reports
  PROVE  Handle(w, e) \in Watchers /\ Adds(Handle(w, e), w, e)
<1> DEFINE v == Handle(w, e)
<1>1. /\ w.review \in Nat /\ w.messages \in Nat /\ w.deltas \in Nat /\ w.usage \in Nat /\ w.done \in Nat
      /\ w.messages <= MaxText /\ w.deltas <= MaxText
      /\ MaxText \in Nat
  <2>1. MaxText \in Nat
    BY TurnAssumption
  <2>2. /\ w.review \in Nat /\ w.usage \in Nat /\ w.done \in Nat
        /\ w.messages \in 0 .. MaxText /\ w.deltas \in 0 .. MaxText
    BY DEF Watchers
  <2>3. QED
    BY <2>1, <2>2
<1>2. e.val \in Nat /\ e.kind \in Kinds /\ e.turn \in Turns \cup {NoTurn}
  BY DEF Reports
<1> HIDE DEF v
<1>3. CASE ~ Takes(w, e) /\ e.kind # "started"
  <2>1. v = w
    BY <1>3 DEF Handle, Takes, v
  <2>2. v \in Watchers
    BY <2>1
  <2>3. Adds(v, w, e)
    BY <1>3, <2>1 DEF Adds, SameText
  <2>4. QED
    BY <2>2, <2>3 DEF v
<1>4. CASE e.kind = "started"
  <2>1. ~ Takes(w, e) /\ ~ EndKind(e)
    BY <1>4 DEF Takes, EndKind
  <2>2. v = IF Finished(w) THEN w ELSE SetTurn(w, e.turn)
    BY <1>4 DEF Handle, Ignores, v
  <2>3. v = w \/ v = [w EXCEPT !.turn = e.turn]
    BY <2>2 DEF SetTurn
  <2>4. v \in Watchers
    BY <1>2, <2>3 DEF Watchers
  <2>5. v.turn = IF ~ Finished(w) /\ w.turn = NoTurn THEN e.turn ELSE w.turn
    BY <2>2 DEF SetTurn, Watchers
  <2>6. /\ SameText(v, w)
        /\ v.done = w.done
        /\ v.usage = w.usage
    BY <2>3 DEF SameText, Watchers
  <2>7. Adds(v, w, e)
    BY <1>4, <2>1, <2>5, <2>6 DEF Adds, SameText
  <2>8. QED
    BY <2>4, <2>7 DEF v
<1>5. CASE Takes(w, e) /\ e.kind = "usage"
  <2>1. v = UsageOf(w, e)
    BY <1>5 DEF Handle, Takes, Accept, v
  <2>2. v = w \/ v = [w EXCEPT !.usage = e.val]
    BY <2>1 DEF UsageOf
  <2>3. v \in Watchers
    BY <1>2, <2>2 DEF Watchers
  <2>4. SameText(v, w) /\ v.done = w.done /\ v.turn = w.turn
    BY <2>2 DEF SameText, Watchers
  <2>5. v.usage = IF e.val # 0 THEN e.val ELSE w.usage
    BY <2>1 DEF UsageOf, Watchers
  <2>6. Adds(v, w, e)
    BY <1>5, <2>4, <2>5 DEF Adds, SameText, EndKind
  <2>7. QED
    BY <2>3, <2>6 DEF v
<1>6. CASE Takes(w, e) /\ e.kind # "usage"
  <2>1. ~ Finished(w) /\ v = Accept(w, e) /\ e.kind # "started"
    BY <1>6 DEF Handle, Takes, Ignores, v
  <2>2. CASE e.kind = "review"
    <3>1. v = [w EXCEPT !.review = e.val]
      BY <2>1, <2>2 DEF Accept
    <3>2. v \in Watchers
      BY <1>2, <3>1 DEF Watchers
    <3>3. /\ v.turn = w.turn /\ v.review = e.val /\ v.done = w.done /\ v.usage = w.usage
          /\ v.overflow = w.overflow /\ v.messages = w.messages /\ v.deltas = w.deltas
      BY <3>1 DEF Watchers
    <3>4. Adds(v, w, e)
      BY <1>6, <2>1, <2>2, <3>3 DEF Adds, EndKind
    <3>5. QED
      BY <3>2, <3>4 DEF v
  <2>3. CASE EndKind(e)
    <3>1. v = Ended(w, e)
      BY <2>1, <2>3 DEF Accept, EndKind
    <3>2. e.kind \in {"completed", "failed"}
      BY <2>3 DEF EndKind
    <3>3. v \in Watchers
      <4>1. PICK r \in Nat : r = IF w.review = 0 THEN e.val ELSE w.review
        BY <1>1, <1>2
      <4>2. v = [w EXCEPT !.status = e.kind, !.review = r, !.done = w.done + 1]
        BY <3>1, <4>1 DEF Ended
      <4>3. w.done + 1 \in Nat
        BY <1>1
      <4>4. QED
        BY <3>2, <4>2, <4>3 DEF Watchers
    <3>4. /\ v.turn = w.turn /\ v.done = w.done + 1 /\ v.usage = w.usage
          /\ v.overflow = w.overflow /\ v.messages = w.messages /\ v.deltas = w.deltas
          /\ v.review = IF w.review = 0 THEN e.val ELSE w.review
      BY <3>1 DEF Ended, Watchers
    <3>5. Adds(v, w, e)
      BY <1>6, <2>1, <2>3, <3>2, <3>4 DEF Adds
    <3>6. QED
      BY <3>3, <3>5 DEF v
  <2>4. CASE e.kind \in {"message", "delta"}
    <3>1. CASE e.kind = "message"
      <4> DEFINE u == Separated(w)
      <4>1. u \in Watchers /\ Gathers(u, w, "messages", IF w.messages = 0 THEN 0 ELSE Separator)
        BY SeparatedIs
      <4>2. Separated(w) = w \/ w.messages # 0
        BY DEF Separated
      <4> HIDE DEF u
      <4>3. v = Collect(u, "messages", e.val)
        BY <2>1, <3>1 DEF Accept, u
      <4>4. v \in Watchers /\ Gathers(v, u, "messages", e.val)
        BY <1>2, <4>1, <4>3, CollectIs
      <4>5. /\ v.turn = w.turn /\ v.review = w.review /\ v.done = w.done /\ v.usage = w.usage
            /\ ~ v.overflow => /\ ~ w.overflow
                              /\ v.messages = w.messages + e.val + (IF w.messages = 0 THEN 0 ELSE Separator)
                              /\ v.deltas = w.deltas
        <5>1. /\ v.turn = w.turn /\ v.review = w.review /\ v.done = w.done /\ v.usage = w.usage
              /\ ~ v.overflow => ~ u.overflow /\ ~ w.overflow
          BY <4>1, <4>4 DEF Gathers
        <5>2. ASSUME ~ v.overflow
              PROVE  /\ v.messages = w.messages + e.val + (IF w.messages = 0 THEN 0 ELSE Separator)
                     /\ v.deltas = w.deltas
          <6>1. PICK c \in Nat : c = IF w.messages = 0 THEN 0 ELSE Separator
            BY DEF Separator
          <6>2. u.messages = w.messages + c /\ u.deltas = w.deltas
            BY <4>1, <5>1, <5>2, <6>1 DEF Gathers
          <6>3. v.messages = u.messages + e.val /\ v.deltas = u.deltas
            BY <4>4, <5>2 DEF Gathers
          <6>4. QED
            BY <1>1, <1>2, <6>1, <6>2, <6>3
        <5>3. QED
          BY <5>1, <5>2
      <4>6. Adds(v, w, e)
        BY <1>6, <2>1, <3>1, <4>5 DEF Adds, EndKind
      <4>7. QED
        BY <4>4, <4>6 DEF v
    <3>2. CASE e.kind = "delta"
      <4>1. v = Collect(w, "deltas", e.val)
        BY <2>1, <3>2 DEF Accept
      <4>2. v \in Watchers /\ Gathers(v, w, "deltas", e.val)
        BY <1>2, <4>1, CollectIs
      <4>3. Adds(v, w, e)
        BY <1>6, <2>1, <3>2, <4>2 DEF Adds, Gathers, EndKind
      <4>4. QED
        BY <4>2, <4>3 DEF v
    <3>3. QED
      BY <2>4, <3>1, <3>2
  <2>5. QED
    BY <1>2, <1>6, <2>1, <2>2, <2>3, <2>4 DEF Kinds, EndKind
<1>7. QED
  BY <1>3, <1>4, <1>5, <1>6

(* An answer that names the turn counts as its start.                      *)
LEMMA AnswerIsStart ==
  ASSUME NEW w \in Watchers, NEW t \in Turns, Finished(w) => w.turn # NoTurn
  PROVE  SetTurn(w, t) = Handle(w, [kind |-> "started", turn |-> t, val |-> 0])
BY DEF SetTurn, Handle, Ignores, Watchers

(* A report that stays where it is keeps its value.                        *)
LEMMA LastKept ==
  ASSUME log \in Seq(Reports), NEW e \in Reports, log' = Append(log, e),
         NEW S \in SUBSET (1 .. Len(log)), HasMax(S)
  PROVE  (IF S = {} THEN 0 ELSE log'[Max(S)].val) = LastOf(S)
<1>1. CASE S # {}
  <2>1. S \in SUBSET Nat
    OBVIOUS
  <2>2. Max(S) \in S
    BY <1>1, <2>1, MaxIs
  <2>3. Max(S) \in DOMAIN log
    BY <2>2, Positions
  <2>4. log'[Max(S)] = log[Max(S)]
    BY <2>3, Appended
  <2>5. QED
    BY <1>1, <2>4 DEF LastOf
<1>2. QED
  BY <1>1 DEF LastOf

(* The newest position is the last.                                        *)
LEMMA LastGrows ==
  ASSUME log \in Seq(Reports), NEW e \in Reports, log' = Append(log, e),
         NEW S \in SUBSET (1 .. Len(log))
  PROVE  /\ HasMax(S \cup {Len(log) + 1})
         /\ S \cup {Len(log) + 1} # {}
         /\ log'[Max(S \cup {Len(log) + 1})].val = e.val
<1>1. Len(log) \in Nat
  BY Positions
<1>2. HasMax(S \cup {Len(log) + 1}) /\ Max(S \cup {Len(log) + 1}) = Len(log) + 1
  BY <1>1, MaxLast
<1>3. log'[Len(log) + 1] = e
  BY Appended
<1>4. QED
  BY <1>2, <1>3

-----------------------------------------------------------------------------
(* The invariant is kept by a report.                                      *)

(* Where the log grows, each set read off it grows by that report or not.  *)
LEMMA SetsStep ==
  ASSUME log \in Seq(Reports), Bounded, NEW e \in Reports, log' = Append(log, e)
  PROVE  /\ \A k : BodyOf(k)' = IF Ends = {} /\ Mine(e) /\ e.kind = k
                               THEN BodyOf(k) \cup {Len(log) + 1} ELSE BodyOf(k)
         /\ Usages' = IF Mine(e) /\ e.kind = "usage" /\ e.val # 0
                      THEN Usages \cup {Len(log) + 1} ELSE Usages
<1> DEFINE n == Len(log)
<1>1. /\ n \in Nat
      /\ DOMAIN log = 1 .. n
      /\ Own \in SUBSET (1 .. n)
      /\ Body \in SUBSET (1 .. n)
  BY Positions
<1>2. log'[n + 1] = e /\ \A i \in 1 .. n : log'[i] = log[i]
  BY <1>1, Appended
<1>3. Own' = IF Mine(e) THEN Own \cup {n + 1} ELSE Own
  BY OwnStep DEF Bounded
<1>4. Body' = IF Ends # {} \/ ~ Mine(e) THEN Body ELSE Body \cup {n + 1}
  BY BodyStep DEF Bounded
<1> HIDE DEF n
<1>5. ASSUME NEW k
      PROVE  BodyOf(k)' = IF Ends = {} /\ Mine(e) /\ e.kind = k
                          THEN BodyOf(k) \cup {n + 1} ELSE BodyOf(k)
  <2>1. \A i : i \in BodyOf(k)' <=> i \in BodyOf(k) \/ (i = n + 1 /\ Ends = {} /\ Mine(e) /\ e.kind = k)
    BY <1>1, <1>2, <1>4 DEF BodyOf
  <2>2. QED
    BY <2>1
<1>6. Usages' = IF Mine(e) /\ e.kind = "usage" /\ e.val # 0 THEN Usages \cup {n + 1} ELSE Usages
  <2>1. \A i : i \in Usages' <=> i \in Usages \/ (i = n + 1 /\ Mine(e) /\ e.kind = "usage" /\ e.val # 0)
    BY <1>1, <1>2, <1>3 DEF Usages
  <2>2. QED
    BY <2>1
<1>7. QED
  BY <1>5, <1>6 DEF n

(* What the log says last.                                                 *)
LEMMA LastStep ==
  ASSUME log \in Seq(Reports), Bounded, NEW e \in Reports, log' = Append(log, e)
  PROVE  /\ Bounded'
         /\ LastOf(BodyOf("review"))' = IF Ends = {} /\ Mine(e) /\ e.kind = "review"
                                        THEN e.val ELSE LastOf(BodyOf("review"))
         /\ LastOf(Ends \cap Body)' = IF Ends = {} /\ EndsIt(e) THEN e.val ELSE LastOf(Ends \cap Body)
         /\ LastOf(Usages)' = IF Mine(e) /\ e.kind = "usage" /\ e.val # 0 THEN e.val ELSE LastOf(Usages)
<1> DEFINE n == Len(log)
<1>1. /\ n \in Nat
      /\ BodyOf("review") \in SUBSET (1 .. n)
      /\ Ends \cap Body \in SUBSET (1 .. n)
      /\ Usages \in SUBSET (1 .. n)
  BY Positions
<1>2. HasMin(Establishing') /\ HasMin(Ends')
  BY EstablishingStep, BodyStep DEF Bounded
<1>3. /\ HasMax(BodyOf("review")')
      /\ LastOf(BodyOf("review"))' = IF Ends = {} /\ Mine(e) /\ e.kind = "review"
                                     THEN e.val ELSE LastOf(BodyOf("review"))
  <2> DEFINE S == BodyOf("review")
  <2>1. S \in SUBSET (1 .. n) /\ HasMax(S)
    BY <1>1 DEF Bounded
  <2>2. S' = IF Ends = {} /\ Mine(e) /\ e.kind = "review" THEN S \cup {n + 1} ELSE S
    BY SetsStep
  <2>3. LastOf(S)' = IF S' = {} THEN 0 ELSE log'[Max(S')].val
    BY DEF LastOf
  <2> HIDE DEF S
  <2>4. CASE Ends = {} /\ Mine(e) /\ e.kind = "review"
    BY <2>1, <2>2, <2>3, <2>4, LastGrows DEF S
  <2>5. CASE ~ (Ends = {} /\ Mine(e) /\ e.kind = "review")
    <3>1. S' = S
      BY <2>2, <2>5
    <3>2. LastOf(S)' = IF S = {} THEN 0 ELSE log'[Max(S)].val
      BY Zenon, <2>3, <3>1
    <3>3. LastOf(S)' = LastOf(S)
      BY <2>1, <3>2, LastKept
    <3>4. QED
      BY <2>1, <2>5, <3>1, <3>3 DEF S
  <2>6. QED
    BY <2>4, <2>5
<1>4. /\ HasMax((Ends \cap Body)')
      /\ LastOf(Ends \cap Body)' = IF Ends = {} /\ EndsIt(e) THEN e.val ELSE LastOf(Ends \cap Body)
  <2> DEFINE S == Ends \cap Body
  <2>1. S \in SUBSET (1 .. n) /\ HasMax(S)
    BY <1>1 DEF Bounded
  <2>2. S' = IF Ends = {} /\ EndsIt(e) THEN {} \cup {n + 1} ELSE S
    BY BodyStep DEF Bounded
  <2>3. LastOf(S)' = IF S' = {} THEN 0 ELSE log'[Max(S')].val
    BY DEF LastOf
  <2> HIDE DEF S
  <2>4. CASE Ends = {} /\ EndsIt(e)
    <3>1. {} \in SUBSET (1 .. n)
      OBVIOUS
    <3>2. S' = {} \cup {n + 1}
      BY <2>2, <2>4
    <3>3. HasMax({} \cup {n + 1}) /\ {} \cup {n + 1} # {} /\ log'[Max({} \cup {n + 1})].val = e.val
      BY <3>1, LastGrows
    <3>4. HasMax(S') /\ LastOf(S)' = e.val
      BY Zenon, <2>3, <3>2, <3>3
    <3>5. QED
      BY <2>4, <3>4 DEF S
  <2>5. CASE ~ (Ends = {} /\ EndsIt(e))
    <3>1. S' = S
      BY <2>2, <2>5
    <3>2. LastOf(S)' = IF S = {} THEN 0 ELSE log'[Max(S)].val
      BY Zenon, <2>3, <3>1
    <3>3. LastOf(S)' = LastOf(S)
      BY <2>1, <3>2, LastKept
    <3>4. QED
      BY <2>1, <2>5, <3>1, <3>3 DEF S
  <2>6. QED
    BY <2>4, <2>5
<1>5. /\ HasMax(Usages')
      /\ LastOf(Usages)' = IF Mine(e) /\ e.kind = "usage" /\ e.val # 0 THEN e.val ELSE LastOf(Usages)
  <2>1. Usages \in SUBSET (1 .. n) /\ HasMax(Usages)
    BY <1>1 DEF Bounded
  <2>2. Usages' = IF Mine(e) /\ e.kind = "usage" /\ e.val # 0 THEN Usages \cup {n + 1} ELSE Usages
    BY SetsStep
  <2>3. LastOf(Usages)' = IF Usages' = {} THEN 0 ELSE log'[Max(Usages')].val
    BY DEF LastOf
  <2>4. CASE Mine(e) /\ e.kind = "usage" /\ e.val # 0
    BY <2>1, <2>2, <2>3, <2>4, LastGrows
  <2>5. CASE ~ (Mine(e) /\ e.kind = "usage" /\ e.val # 0)
    <3>1. Usages' = Usages
      BY <2>2, <2>5
    <3>2. LastOf(Usages)' = IF Usages = {} THEN 0 ELSE log'[Max(Usages)].val
      BY Zenon, <2>3, <3>1
    <3>3. LastOf(Usages)' = LastOf(Usages)
      BY <2>1, <3>2, LastKept
    <3>4. QED
      BY <2>1, <2>5, <3>1, <3>3
  <2>6. QED
    BY <2>4, <2>5
<1>6. QED
  BY <1>2, <1>3, <1>4, <1>5 DEF Bounded

(* What it says in sum.                                                    *)
LEMMA TotalStep ==
  ASSUME log \in Seq(Reports), Bounded, NEW e \in Reports, log' = Append(log, e), NEW k
  PROVE  /\ Total(BodyOf(k))' = IF Ends = {} /\ Mine(e) /\ e.kind = k
                                THEN Total(BodyOf(k)) + e.val ELSE Total(BodyOf(k))
         /\ Joined(BodyOf(k)) \in Nat
         /\ Joined(BodyOf(k))' =
              IF Ends = {} /\ Mine(e) /\ e.kind = k
              THEN Joined(BodyOf(k)) + e.val + (IF Joined(BodyOf(k)) = 0 THEN 0 ELSE Separator)
              ELSE Joined(BodyOf(k))
<1> DEFINE n == Len(log)
           S == BodyOf(k)
           B(l, Q) == Cardinality(BytesIn(l, Q))
           F(l, Q) == Cardinality(FollowersIn(l, Q))
<1>1. /\ n \in Nat
      /\ DOMAIN log = 1 .. n
      /\ S \in SUBSET (1 .. n)
  BY Positions
<1>2. log'[n + 1] = e /\ \A i \in S : log'[i] = log[i]
  BY <1>1, Appended
<1>3. S' = IF Ends = {} /\ Mine(e) /\ e.kind = k THEN S \cup {n + 1} ELSE S
  BY SetsStep
<1>4. /\ Total(S) = B(log, S) /\ Total(S)' = B(log', S')
      /\ Joined(S) = B(log, S) + Separator * F(log, S)
      /\ Joined(S)' = B(log', S') + Separator * F(log', S')
  BY DEF Total, Joined, Bytes, Followers, BytesIn, FollowersIn
<1>5. e.val \in Nat /\ \A i \in S : log[i].val \in Nat
  <2>1. \A r \in Reports : r.val \in Nat
    BY DEF Reports
  <2>2. \A i \in S : log[i] \in Reports
    BY <1>1
  <2>3. QED
    BY <2>1, <2>2
<1> HIDE DEF S, n
<1>6. B(log', S) = B(log, S) /\ F(log', S) = F(log, S)
  BY <1>2, BytesKept
<1>7. /\ B(log, S) \in Nat /\ F(log, S) \in Nat
      /\ B(log, S) + Separator * F(log, S) = 0 <=> \A j \in S : log[j].val = 0
  BY <1>1, <1>5, NothingJoined
<1>8. CASE Ends = {} /\ Mine(e) /\ e.kind = k
  <2>1. B(log', S \cup {n + 1}) = B(log', S) + e.val
    <3>1. \A i \in S : log'[i].val \in Nat
      BY <1>2, <1>5
    <3>2. log'[n + 1].val = e.val
      BY <1>2
    <3>3. QED
      BY <1>1, <1>5, <3>1, <3>2, TotalGrows
  <2>2. F(log', S \cup {n + 1}) = F(log', S) + (IF \E j \in S : log'[j].val # 0 THEN 1 ELSE 0)
    BY <1>1, FollowersGrow
  <2>3. (\E j \in S : log'[j].val # 0) <=> Joined(S) # 0
    BY <1>2, <1>4, <1>7
  <2>4. S' = S \cup {n + 1}
    BY <1>3, <1>8
  <2> HIDE DEF B, F
  <2>5. Total(S)' = B(log', S \cup {n + 1})
    BY Zenon, <1>4, <2>4
  <2>6. Joined(S)' = B(log', S \cup {n + 1}) + Separator * F(log', S \cup {n + 1})
    BY Zenon, <1>4, <2>4
  <2>7. Total(S)' = Total(S) + e.val
    BY <1>4, <1>6, <2>1, <2>5
  <2>8. Joined(S)' = Joined(S) + e.val + (IF Joined(S) = 0 THEN 0 ELSE Separator)
    <3>1. Joined(S)' = B(log, S) + e.val + Separator * F(log', S \cup {n + 1})
      BY <1>6, <2>1, <2>6
    <3>2. CASE Joined(S) = 0
      <4>1. F(log', S \cup {n + 1}) = F(log, S)
        <5>1. F(log', S \cup {n + 1}) = F(log, S) + 0
          BY <1>6, <2>2, <2>3, <3>2
        <5>2. QED
          BY <1>7, <5>1
      <4>2. QED
        BY <1>4, <1>5, <1>7, <3>1, <3>2, <4>1 DEF Separator
    <3>3. CASE Joined(S) # 0
      <4>1. F(log', S \cup {n + 1}) = F(log, S) + 1
        BY <1>6, <2>2, <2>3, <3>3
      <4>2. QED
        BY <1>4, <1>5, <1>7, <3>1, <3>3, <4>1 DEF Separator
    <3>4. QED
      BY <3>2, <3>3
  <2>9. Joined(S) \in Nat
    BY <1>4, <1>7 DEF Separator
  <2>10. QED
    BY <1>8, <2>7, <2>8, <2>9 DEF S
<1>9. CASE ~ (Ends = {} /\ Mine(e) /\ e.kind = k)
  <2>1. S' = S
    BY <1>3, <1>9
  <2> HIDE DEF B, F
  <2>2. Total(S)' = Total(S) /\ Joined(S)' = Joined(S)
    BY Zenon, <1>4, <1>6, <2>1
  <2>3. Joined(S) \in Nat
    BY <1>4, <1>7 DEF Separator
  <2>4. QED
    BY <1>9, <2>2, <2>3 DEF S
<1>10. QED
  BY <1>8, <1>9

(* The watcher follows the log.                                            *)
LEMMA ToldStep ==
  ASSUME Typed, Bounded, Told, NEW e \in Reports, log' = Append(log, e),
         watcher' = Handle(watcher, e)
  PROVE  Bounded' /\ Told'
<1>1. log \in Seq(Reports) /\ watcher \in Watchers
  BY DEF Typed, TypeOK
<1>2. Adds(watcher', watcher, e)
  BY <1>1, HandleIs
<1>3. watcher.turn = Named /\ (Finished(watcher) <=> Ends # {})
  BY DEF Told, Finished
<1>4. Matches(watcher, e) /\ e.kind # "started" <=> Mine(e)
  BY <1>3 DEF Matches, Mine
<1>5. Takes(watcher, e) <=> (Ends = {} \/ e.kind = "usage") /\ Mine(e)
  BY <1>3, <1>4 DEF Takes, Ignores
<1>6. Bounded'
  BY <1>1, LastStep
<1>7. watcher'.turn = Named'
  <2>1. Named' = IF Establishing = {} /\ Establishes(e) THEN e.turn ELSE Named
    BY <1>1, EstablishingStep DEF Bounded
  <2>2. Named = NoTurn <=> Establishing = {}
    BY <1>1, NamedIs DEF Bounded
  <2>3. Ends # {} => Establishing # {}
    BY DEF Ends, Own
  <2>4. watcher'.turn = IF Ends = {} /\ e.kind = "started" /\ Named = NoTurn THEN e.turn ELSE Named
    BY <1>2, <1>3 DEF Adds
  <2>5. QED
    BY <2>1, <2>2, <2>3, <2>4 DEF Establishes
<1>8. watcher'.done = (IF Ends' = {} THEN 0 ELSE 1)
  <2>1. Ends' = Ends \cup (IF EndsIt(e) THEN {Len(log) + 1} ELSE {})
    BY <1>1, BodyStep DEF Bounded
  <2>2. Takes(watcher, e) /\ EndKind(e) <=> Ends = {} /\ EndsIt(e)
    BY <1>5 DEF EndsIt, EndKind
  <2>3. watcher.done = (IF Ends = {} THEN 0 ELSE 1)
    BY DEF Told
  <2>4. watcher'.done = IF Ends = {} /\ EndsIt(e) THEN watcher.done + 1 ELSE watcher.done
    BY <1>2, <2>2 DEF Adds
  <2>5. QED
    BY <2>1, <2>3, <2>4
<1>9. watcher'.usage = SaidUsage'
  <2>1. SaidUsage = LastOf(Usages) /\ SaidUsage' = LastOf(Usages)'
    BY DEF SaidUsage, Usages
  <2>2. LastOf(Usages)' = IF Mine(e) /\ e.kind = "usage" /\ e.val # 0 THEN e.val ELSE LastOf(Usages)
    BY <1>1, LastStep
  <2>3. watcher'.usage = IF Mine(e) /\ e.kind = "usage" /\ e.val # 0 THEN e.val ELSE watcher.usage
    BY <1>2, <1>5 DEF Adds
  <2>4. watcher.usage = SaidUsage
    BY DEF Told
  <2>5. QED
    BY <2>1, <2>2, <2>3, <2>4
<1>10. watcher'.review = SaidReview'
  <2> DEFINE A == LastOf(BodyOf("review"))
             B == LastOf(Ends \cap Body)
  <2>1. SaidReview = (IF A # 0 THEN A ELSE B) /\ SaidReview' = (IF A' # 0 THEN A' ELSE B')
    BY DEF SaidReview
  <2>2. /\ A' = IF Ends = {} /\ Mine(e) /\ e.kind = "review" THEN e.val ELSE A
        /\ B' = IF Ends = {} /\ EndsIt(e) THEN e.val ELSE B
    BY <1>1, LastStep
  <2>3. Ends = {} => B = 0
    BY DEF LastOf
  <2> HIDE DEF A, B
  <2>4. watcher.review = SaidReview
    BY DEF Told
  <2>5. CASE Ends = {} /\ Mine(e) /\ e.kind = "review"
    <3>1. Takes(watcher, e) /\ ~ EndsIt(e)
      BY <1>5, <2>5 DEF EndsIt, EndKind
    <3>2. watcher'.review = e.val
      BY <1>2, <2>5, <3>1 DEF Adds
    <3>3. QED
      BY <2>1, <2>2, <2>3, <2>5, <3>1, <3>2
  <2>6. CASE Ends = {} /\ EndsIt(e)
    <3>1. Takes(watcher, e) /\ EndKind(e) /\ e.kind # "review"
      BY <1>5, <2>6 DEF EndsIt, EndKind
    <3>2. watcher'.review = IF watcher.review = 0 THEN e.val ELSE watcher.review
      BY <1>2, <3>1 DEF Adds
    <3>3. QED
      BY <2>1, <2>2, <2>3, <2>4, <2>6, <3>1, <3>2
  <2>7. CASE ~ (Ends = {} /\ Mine(e) /\ e.kind = "review") /\ ~ (Ends = {} /\ EndsIt(e))
    <3>1. ~ (Takes(watcher, e) /\ (e.kind = "review" \/ (EndKind(e) /\ watcher.review = 0)))
      BY <1>5, <2>7 DEF EndsIt, EndKind
    <3>2. watcher'.review = watcher.review
      BY <1>2, <3>1 DEF Adds
    <3>3. QED
      BY <2>1, <2>2, <2>4, <2>7, <3>2
  <2>8. QED
    BY <2>5, <2>6, <2>7
<1>11. ASSUME ~ watcher'.overflow
       PROVE  /\ watcher'.messages = Joined(BodyOf("message"))'
              /\ watcher'.deltas = Total(BodyOf("delta"))'
  <2>1. /\ ~ watcher.overflow
        /\ watcher'.messages = IF Takes(watcher, e) /\ e.kind = "message"
                               THEN watcher.messages + e.val + (IF watcher.messages = 0 THEN 0 ELSE Separator)
                               ELSE watcher.messages
        /\ watcher'.deltas = IF Takes(watcher, e) /\ e.kind = "delta"
                             THEN watcher.deltas + e.val ELSE watcher.deltas
    BY <1>2, <1>11 DEF Adds
  <2>2. watcher.messages = Joined(BodyOf("message")) /\ watcher.deltas = Total(BodyOf("delta"))
    BY <2>1 DEF Told
  <2>3. \A k \in {"message", "delta"} :
          Takes(watcher, e) /\ e.kind = k <=> Ends = {} /\ Mine(e) /\ e.kind = k
    BY <1>5
  <2>4. Joined(BodyOf("message"))' =
          IF Ends = {} /\ Mine(e) /\ e.kind = "message"
          THEN Joined(BodyOf("message")) + e.val + (IF Joined(BodyOf("message")) = 0 THEN 0 ELSE Separator)
          ELSE Joined(BodyOf("message"))
    BY <1>1, TotalStep
  <2>5. Total(BodyOf("delta"))' = IF Ends = {} /\ Mine(e) /\ e.kind = "delta"
                                  THEN Total(BodyOf("delta")) + e.val ELSE Total(BodyOf("delta"))
    BY <1>1, TotalStep
  <2>6. QED
    BY <2>1, <2>2, <2>3, <2>4, <2>5
<1>12. QED
  BY <1>6, <1>7, <1>8, <1>9, <1>10, <1>11 DEF Told

(* A finished watcher keeps its text, whatever else arrives.               *)
LEMMA TextKept ==
  ASSUME Typed, NEW e \in Reports, watcher' = Handle(watcher, e), Finished(watcher)
  PROVE  Finished(watcher') /\ SameText(watcher', watcher) /\ Text(watcher') = Text(watcher)
<1>1. watcher \in Watchers
  BY DEF Typed, TypeOK
<1>2. Adds(watcher', watcher, e)
  BY <1>1, HandleIs
<1>3. SameText(watcher', watcher)
  BY <1>2 DEF Adds
<1>4. watcher'.done = watcher.done \/ watcher'.done = watcher.done + 1
  BY <1>2 DEF Adds
<1>5. Finished(watcher')
  <2>1. watcher.done \in Nat
    BY <1>1 DEF Watchers
  <2>2. QED
    BY <1>4, <2>1 DEF Finished
<1>6. QED
  BY <1>3, <1>5 DEF SameText, Text

(* The step of Review that takes the answer is a report of the turn's      *)
(* start.                                                                  *)
LEMMA AnswerStep ==
  ASSUME Typed, Bounded, Told, StartAnswered
  PROVE  LET e == [kind |-> "started", turn |-> resp, val |-> 0]
         IN  e \in Reports /\ log' = Append(log, e) /\ watcher' = Handle(watcher, e)
<1>1. resp \in Turns /\ watcher \in Watchers
  BY DEF StartAnswered, Typed, TypeOK
<1>2. Finished(watcher) => watcher.turn # NoTurn
  <2>1. log \in Seq(Reports)
    BY DEF Typed, TypeOK
  <2>2. Finished(watcher) => Ends # {}
    BY DEF Told, Finished
  <2>3. Ends # {} => Establishing # {}
    BY DEF Ends, Own
  <2>4. QED
    BY <2>1, <2>2, <2>3, NamedIs DEF Told, Bounded
<1>3. [kind |-> "started", turn |-> resp, val |-> 0] \in Reports
  BY <1>1 DEF Reports, Kinds
<1>4. QED
  BY <1>1, <1>2, <1>3, AnswerIsStart DEF StartAnswered

-----------------------------------------------------------------------------
(* The invariant is inductive.                                             *)

(* A review begins with nothing said.                                      *)
LEMMA IInvInit == Init => IInv
<1> SUFFICES ASSUME Init PROVE IInv
  OBVIOUS
<1>1. log = << >> /\ DOMAIN log = {}
  BY DEF Init
<1>2. Establishing = {} /\ Own = {} /\ Ends = {} /\ Usages = {} /\ \A k : BodyOf(k) = {}
  BY <1>1 DEF Establishing, Own, Ends, Usages, BodyOf, Body
<1>3. MaxText \in Nat
  BY TurnAssumption
<1>4. NewWatcher \in Watchers
  BY <1>3 DEF NewWatcher, Watchers
<1>5. Typed
  <2>1. log \in Seq(Reports)
    BY <1>1
  <2>2. outcome \in Outcomes
    BY <1>3 DEF Init, Outcomes
  <2>3. watcher.review = 0 /\ final.review = 0
    BY DEF Init, NewWatcher
  <2>4. TypeOK
    <3>1. closed \in BOOLEAN /\ live \in BOOLEAN
      BY Zenon DEF Init
    <3>2. outcome.kind = "none" /\ outcome.text = 0 /\ 0 \in 0 .. MaxText
      BY <1>3 DEF Init
    <3>3. QED
      BY <1>4, <2>1, <3>1, <3>2 DEF Init, TypeOK
  <2>5. QED
    BY <2>2, <2>3, <2>4 DEF Typed, Vals
<1>6. Bounded
  BY <1>2 DEF Bounded, HasMin, HasMax
<1>7. Told
  <2>1. Named = NoTurn /\ SaidUsage = 0 /\ SaidReview = 0
    BY <1>2 DEF Named, SaidUsage, SaidReview, LastOf
  <2>2. Total(BodyOf("delta")) = 0 /\ Joined(BodyOf("message")) = 0
    <3>1. Bytes({}) = {} /\ Followers({}) = {}
      BY DEF Bytes, Followers
    <3>2. Total({}) = 0 /\ Joined({}) = 0
      BY <3>1, FS_EmptySet DEF Total, Joined, Separator
    <3>3. QED
      BY Zenon, <1>2, <3>2
  <2>3. QED
    BY <1>2, <2>1, <2>2 DEF Told, Init, NewWatcher
<1>8. Kept
  BY DEF Kept, Init
<1>9. QED
  BY <1>5, <1>6, <1>7, <1>8 DEF IInv

(* What the log says does not change without it.                           *)
LEMMA Unsaid ==
  ASSUME Bounded, Told, UNCHANGED <<watcher, log>>
  PROVE  Bounded' /\ Told'
<1>1. log' = log
  OBVIOUS
<1>2. Establishing' = Establishing /\ Named' = Named
  BY <1>1 DEF Establishing, Named
<1>3. Own' = Own
  BY <1>1, <1>2 DEF Own
<1>4. Ends' = Ends /\ Usages' = Usages
  BY <1>1, <1>3 DEF Ends, Usages
<1>5. Body' = Body
  BY <1>3, <1>4 DEF Body
<1>6. \A k : BodyOf(k)' = BodyOf(k)
  BY <1>1, <1>5 DEF BodyOf
<1>7. SaidUsage' = SaidUsage
  BY <1>1, <1>4 DEF SaidUsage, Usages, LastOf
<1>8. SaidReview' = SaidReview
  BY <1>1, <1>4, <1>5, <1>6 DEF SaidReview, LastOf
<1>9. \A k : Total(BodyOf(k))' = Total(BodyOf(k)) /\ Joined(BodyOf(k))' = Joined(BodyOf(k))
  BY <1>1, <1>6 DEF Total, Joined, Bytes, Followers
<1>10. QED
  BY <1>2, <1>4, <1>5, <1>6, <1>7, <1>8, <1>9 DEF Bounded, Told

(* Each step reports, or leaves the watcher and the log alone.             *)
LEMMA SaidStep ==
  ASSUME Typed, Bounded, Told, [Next]_vars
  PROVE  \/ \E e \in Reports : log' = Append(log, e) /\ watcher' = Handle(watcher, e)
         \/ UNCHANGED <<watcher, log>>
<1>1. CASE Dispatch
  BY <1>1, TurnAssumption DEF Dispatch
<1>2. CASE StartAnswered
  BY <1>2, AnswerStep
<1>3. CASE ~ Dispatch /\ ~ StartAnswered
  BY <1>3 DEF Next, ReviewStep, Respond, Close, ContextEnds, StartRejected, StartFails,
     AwaitSelects, AwaitRechecks, InterruptEnds, SnapshotFinal, UsageGrace, Answer, vars
<1>4. QED
  BY <1>1, <1>2, <1>3

(* A text is one the child sent or a sum that was collected.               *)
LEMMA TextTyped ==
  ASSUME NEW w \in Watchers, w.review \in Vals
  PROVE  Text(w) \in 0 .. MaxText \cup {e.val : e \in Events}
<1>1. MaxText \in Nat
  BY TurnAssumption
<1>2. w.messages \in 0 .. MaxText /\ w.deltas \in 0 .. MaxText
  BY DEF Watchers
<1>3. 0 \in 0 .. MaxText
  BY <1>1
<1>4. QED
  BY <1>2, <1>3 DEF Text, Vals

(* The types.                                                              *)
LEMMA TypedStep ==
  ASSUME Typed, Bounded, Told, [Next]_vars
  PROVE  Typed'
<1>1. /\ watcher \in Watchers /\ final \in Watchers /\ log \in Seq(Reports)
      /\ resp \in Responses \cup {NoResponse}
      /\ watcher.review \in Vals /\ final.review \in Vals
      /\ outcome \in Outcomes
  BY DEF Typed, TypeOK
<1>2. watcher' \in Watchers /\ log' \in Seq(Reports)
  <2>1. ASSUME NEW e \in Reports, log' = Append(log, e), watcher' = Handle(watcher, e)
        PROVE  watcher' \in Watchers /\ log' \in Seq(Reports)
    BY <1>1, <2>1, HandleIs, Appended
  <2>2. QED
    BY <1>1, <2>1, SaidStep
<1>3. watcher'.review \in Vals
  <2>1. CASE Dispatch
    <3>1. PICK e \in Events : watcher' = Handle(watcher, e)
      BY <2>1 DEF Dispatch
    <3>2. e \in Reports
      BY TurnAssumption
    <3>3. watcher'.review = e.val \/ watcher'.review = watcher.review
      BY <1>1, <3>1, <3>2, HandleIs DEF Adds
    <3>4. QED
      BY <1>1, <3>3 DEF Vals
  <2>2. CASE StartAnswered
    <3>1. watcher'.review = watcher.review
      BY <1>1, <2>2 DEF StartAnswered, SetTurn, Watchers
    <3>2. QED
      BY <1>1, <3>1
  <2>3. CASE ~ Dispatch /\ ~ StartAnswered
    <3>1. UNCHANGED watcher
      BY <2>3 DEF Next, ReviewStep, Respond, Close, ContextEnds, StartRejected, StartFails,
         AwaitSelects, AwaitRechecks, InterruptEnds, SnapshotFinal, UsageGrace, Answer, vars
    <3>2. QED
      BY <1>1, <3>1
  <2>4. QED
    BY <2>1, <2>2, <2>3
<1>4. final' \in {final, watcher}
  BY DEF Next, ReviewStep, Dispatch, Respond, Close, ContextEnds, StartAnswered, StartRejected,
     StartFails, AwaitSelects, AwaitRechecks, InterruptEnds, SnapshotFinal, UsageGrace,
     LaterSnapshot, Answer, vars
<1>5. resp' \in Responses \cup {NoResponse}
  BY <1>1 DEF Next, ReviewStep, Dispatch, Respond, Close, ContextEnds, StartAnswered, StartRejected,
     StartFails, AwaitSelects, AwaitRechecks, InterruptEnds, SnapshotFinal, UsageGrace, Answer, vars
<1>6. closed' \in BOOLEAN /\ live' \in BOOLEAN
  <2>1. closed' \in {closed, TRUE} /\ live' \in {live, FALSE}
    BY DEF Next, ReviewStep, Dispatch, Respond, Close, ContextEnds, StartAnswered, StartRejected,
       StartFails, AwaitSelects, AwaitRechecks, InterruptEnds, SnapshotFinal, UsageGrace, Answer, vars
  <2>2. closed \in BOOLEAN /\ live \in BOOLEAN
    BY DEF Typed, TypeOK
  <2>3. QED
    BY <2>1, <2>2
<1>7. /\ outcome' \in Outcomes
      /\ pc' \in {"start", "await", "closed?", "cancelled?", "interrupt", "final", "usageGrace",
                  "answer", "returned"}
  <2> DEFINE Steps == {"start", "await", "closed?", "cancelled?", "interrupt", "final", "usageGrace",
                       "answer", "returned"}
  <2> SUFFICES outcome' \in Outcomes /\ pc' \in Steps
    OBVIOUS
  <2>1. pc \in Steps
    BY DEF Typed, TypeOK
  <2>2. \A kind \in {"failed", "cancelled", "closed", "error"} :
          Return(kind) => outcome' \in Outcomes /\ pc' \in Steps
    <3>1. 0 \in 0 .. MaxText
      BY TurnAssumption
    <3>2. QED
      BY <3>1 DEF Return, Outcomes
  <2>3. \A step \in Steps : Goto(step) => outcome' \in Outcomes /\ pc' \in Steps
    BY <1>1 DEF Goto
  <2> HIDE DEF Steps
  <2>4. {"start", "await", "closed?", "cancelled?", "interrupt", "final", "usageGrace",
         "answer", "returned"} \subseteq Steps
    BY DEF Steps
  <2>5. CASE Answer
    <3>1. /\ Text(final) \in 0 .. MaxText \cup {e.val : e \in Events}
          /\ final.usage \in Nat
          /\ 0 \in 0 .. MaxText
      <4>1. Text(final) \in 0 .. MaxText \cup {e.val : e \in Events}
        BY <1>1, TextTyped
      <4>2. final.usage \in Nat
        BY <1>1 DEF Watchers
      <4>3. 0 \in 0 .. MaxText
        BY TurnAssumption
      <4>4. QED
        BY <4>1, <4>2, <4>3
    <3>2. QED
      BY <2>4, <2>5, <3>1 DEF Answer, Outcomes
  <2>6. CASE StartAnswered
    BY <2>2, <2>3, <2>4, <2>6 DEF StartAnswered
  <2>7. CASE StartRejected
    BY <2>2, <2>7 DEF StartRejected
  <2>8. CASE StartFails
    BY <2>2, <2>3, <2>4, <2>8 DEF StartFails
  <2>9. CASE AwaitSelects
    BY <2>3, <2>4, <2>9 DEF AwaitSelects
  <2>10. CASE AwaitRechecks
    BY <2>2, <2>3, <2>4, <2>10 DEF AwaitRechecks
  <2>11. CASE InterruptEnds
    BY <2>2, <2>11 DEF InterruptEnds
  <2>12. CASE SnapshotFinal
    BY <2>3, <2>4, <2>12 DEF SnapshotFinal
  <2>13. CASE UsageGrace
    BY <2>3, <2>4, <2>13 DEF UsageGrace
  <2>14. CASE ~ ReviewStep
    BY <1>1, <2>1, <2>14 DEF Next, Dispatch, Respond, Close, ContextEnds, vars
  <2>15. QED
    BY <2>5, <2>6, <2>7, <2>8, <2>9, <2>10, <2>11, <2>12, <2>13, <2>14 DEF ReviewStep
<1>8. outcome'.kind \in {"none", "review", "failed", "cancelled", "closed", "error"}
      /\ outcome'.text \in 0 .. MaxText \cup {e.val : e \in Events}
  BY <1>7 DEF Outcomes
<1>9. TypeOK'
  BY <1>1, <1>2, <1>4, <1>5, <1>6, <1>7, <1>8 DEF TypeOK
<1>10. QED
  BY <1>1, <1>3, <1>4, <1>7, <1>9 DEF Typed

(* What has been read of a finished turn.                                  *)
LEMMA KeptStep ==
  ASSUME Typed, Bounded, Told, Kept, [Next]_vars
  PROVE  Kept'
<1>1. Finished(watcher) =>
        Finished(watcher') /\ SameText(watcher', watcher) /\ Text(watcher') = Text(watcher)
  <2>1. CASE UNCHANGED <<watcher, log>>
    BY <2>1 DEF SameText
  <2>2. QED
    BY <2>1, SaidStep, TextKept
<1>2. CASE UNCHANGED <<pc, final, outcome>>
  <2>1. pc' = pc /\ final' = final /\ outcome' = outcome
    BY <1>2
  <2>2. SameText(final, watcher) /\ SameText(watcher', watcher) => SameText(final', watcher')
    BY <2>1 DEF SameText
  <2>3. QED
    BY <1>1, <2>1, <2>2 DEF Kept
<1>3. CASE UNCHANGED <<watcher, final>> /\ Finished(watcher) /\ pc' = "final" /\ UNCHANGED outcome /\ pc # "returned"
  BY <1>3 DEF Kept
<1>4. CASE /\ pc # "returned" /\ UNCHANGED outcome
           /\ pc' \in {"start", "await", "closed?", "cancelled?", "interrupt"}
  BY <1>4 DEF Kept
<1>5. CASE pc' = "returned" /\ outcome'.kind # "review"
  BY <1>5 DEF Kept
<1>6. CASE SnapshotFinal
  BY <1>6 DEF SnapshotFinal, Goto, Kept, SameText
<1>7. CASE UsageGrace
  BY <1>7 DEF UsageGrace, LaterSnapshot, Goto, Kept, SameText
<1>8. CASE Answer
  <2>1. Finished(watcher) /\ Text(final) = Text(watcher) /\ watcher' = watcher
    BY <1>8 DEF Answer, Kept, SameText, Text
  <2>2. QED
    BY <1>8, <2>1 DEF Answer, Kept
<1>9. CASE Dispatch \/ Respond \/ Close \/ ContextEnds \/ UNCHANGED vars
  BY <1>2, <1>9 DEF Dispatch, Respond, Close, ContextEnds, vars
<1>10. CASE StartAnswered \/ StartRejected \/ StartFails \/ InterruptEnds
  <2>1. \A kind \in {"closed", "error", "cancelled"} :
          Return(kind) => pc' = "returned" /\ outcome'.kind # "review"
    BY DEF Return
  <2>2. pc # "returned"
    BY <1>10 DEF StartAnswered, StartRejected, StartFails, InterruptEnds
  <2>3. \A step \in {"await", "interrupt"} :
          Goto(step) => /\ UNCHANGED outcome
                        /\ pc' \in {"start", "await", "closed?", "cancelled?", "interrupt"}
    BY DEF Goto
  <2>4. \/ \E kind \in {"closed", "error", "cancelled"} : Return(kind)
        \/ \E step \in {"await", "interrupt"} : Goto(step)
    BY <1>10 DEF StartAnswered, StartRejected, StartFails, InterruptEnds
  <2>5. QED
    BY <1>4, <1>5, <2>1, <2>2, <2>3, <2>4
<1>11. CASE AwaitSelects
  BY <1>3, <1>4, <1>11 DEF AwaitSelects, Goto
<1>12. CASE AwaitRechecks
  BY <1>3, <1>4, <1>5, <1>12 DEF AwaitRechecks, FinishedMeanwhile, Goto, Return
<1>13. QED
  BY <1>6, <1>7, <1>8, <1>9, <1>10, <1>11, <1>12 DEF Next, ReviewStep

(* For any reports, turns and limits.                                      *)
THEOREM IInvHolds == Spec => []IInv
<1>1. IInv /\ [Next]_vars => IInv'
  <2> SUFFICES ASSUME IInv, [Next]_vars PROVE IInv'
    OBVIOUS
  <2>1. Typed' /\ Kept'
    BY TypedStep, KeptStep DEF IInv
  <2>2. Bounded' /\ Told'
    BY SaidStep, ToldStep, Unsaid DEF IInv
  <2>3. QED
    BY <2>1, <2>2 DEF IInv
<1>2. QED
  BY <1>1, IInvInit, PTL DEF Spec

-----------------------------------------------------------------------------
(* Theorems.                                                               *)

(* The types, and that a collected text is never longer than its limit.    *)
THEOREM TypeCorrect == Spec => []TypeOK
<1>1. IInv => TypeOK
  BY DEF IInv, Typed
<1>2. QED
  BY <1>1, IInvHolds, PTL

(* The channel done is closed at most once, however many ends of the turn  *)
(* the child reports (client.go, handle).                                  *)
THEOREM DoneIsClosedOnce == Spec => []DoneClosedOnce
<1>1. IInv => DoneClosedOnce
  BY DEF IInv, Told, DoneClosedOnce
<1>2. QED
  BY <1>1, IInvHolds, PTL

(* The text of a review is the one the child gave of this turn, whole and  *)
(* up to its end (client.go, handle and text).                             *)
THEOREM TextIsOfTheTurn == Spec => []TextIsTheTurns
<1>1. IInv => TextIsTheTurns
  BY DEF IInv, Told, Kept, Text, TextIsTheTurns, SaidText
<1>2. QED
  BY <1>1, IInvHolds, PTL

(* The usage in the answer is the turn's last valid report (client.go,     *)
(* Review and handle).                                                     *)
THEOREM UsageIsOfTheTurn == Spec => UsageIsTheTurns
<1>1. IInv /\ [Next]_vars => (pc = "usageGrace" /\ pc' = "answer" => final'.usage = SaidUsage)
  <2> SUFFICES ASSUME IInv, [Next]_vars, pc = "usageGrace", pc' = "answer"
               PROVE  final'.usage = SaidUsage
    OBVIOUS
  <2>1. UsageGrace
    BY DEF Next, ReviewStep, Dispatch, Respond, Close, ContextEnds, StartAnswered, StartRejected,
       StartFails, AwaitSelects, AwaitRechecks, InterruptEnds, SnapshotFinal, Answer, vars
  <2>2. QED
    BY <2>1 DEF UsageGrace, LaterSnapshot, IInv, Told
<1>2. QED
  BY <1>1, IInvHolds, PTL DEF Spec, UsageIsTheTurns
=============================================================================
