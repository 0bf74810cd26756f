---------------------------- MODULE LedgerProofs ----------------------------
(***************************************************************************)
(* What the ledger's operators guarantee for every value of the bounds.    *)
(***************************************************************************)
EXTENDS Ledger, FiniteSetTheorems, SequenceTheorems, TLAPS

-----------------------------------------------------------------------------
(* Sizes are natural numbers.                                              *)

(* The quoted text of a ledger (history.go, historyBytes) is finite.       *)
LEMMA QuotedBytesFinite ==
  ASSUME NEW h \in Seq(HistoryRecord)
  PROVE  /\ IsFiniteSet(QuotedBytes(h))
         /\ HistoryBytes(h) \in Nat
<1> DEFINE Text(i) == {i} \X (1 .. h[i].review)
           S == {Text(i) : i \in 1 .. Len(h)}
           f == [i \in 1 .. Len(h) |-> Text(i)]
<1>1. Len(h) \in Nat /\ DOMAIN h = 1 .. Len(h) /\ \A i \in 1 .. Len(h) : h[i].review \in Nat
  <2>1. Len(h) \in Nat /\ DOMAIN h = 1 .. Len(h) /\ \A i \in 1 .. Len(h) : h[i] \in HistoryRecord
    BY LenProperties, ElementOfSeq
  <2>2. QED BY <2>1 DEF HistoryRecord
<1>2. QuotedBytes(h) = UNION S
  BY <1>1 DEF QuotedBytes
<1>3. IsFiniteSet(1 .. Len(h))
  BY <1>1, FS_Interval
<1>4. IsFiniteSet(S)
  <2> HIDE DEF Text
  <2>1. f \in Surjection(1 .. Len(h), S)
    BY DEF Surjection
  <2>2. QED
    BY <1>3, <2>1, FS_Surjection
<1>5. \A T \in S : IsFiniteSet(T)
  <2>1. SUFFICES ASSUME NEW i \in 1 .. Len(h)
                 PROVE  IsFiniteSet(Text(i))
    OBVIOUS
  <2>2. IsFiniteSet({i})
    BY FS_Singleton
  <2>3. h[i].review \in Int /\ 1 \in Int
    BY <1>1
  <2>4. IsFiniteSet(1 .. h[i].review)
    BY <2>3, FS_Interval
  <2>5. QED
    BY <2>2, <2>4, FS_Product
<1>6. IsFiniteSet(UNION S)
  <2> HIDE DEF S
  <2>1. QED BY <1>4, <1>5, FS_UNION
<1>7. QED
  BY <1>2, <1>6, FS_CardinalityType DEF HistoryBytes

(* An empty ledger quotes nothing (history.go, historyBytes).              *)
LEMMA EmptyHistoryBytes == HistoryBytes(<< >>) = 0
<1>1. QuotedBytes(<< >>) = {}
  BY DEF QuotedBytes
<1>2. QED
  BY <1>1, FS_EmptySet DEF HistoryBytes

-----------------------------------------------------------------------------
(* The eviction loop of RetainHistory.                                     *)

(* What is left of a ledger without its k oldest records.                  *)
LEMMA DropOldestProperties ==
  ASSUME NEW h \in Seq(HistoryRecord), NEW k \in 0 .. Len(h)
  PROVE  /\ DropOldest(h, k) \in Seq(HistoryRecord)
         /\ Len(DropOldest(h, k)) = Len(h) - k
         /\ \A i \in 1 .. Len(h) - k : DropOldest(h, k)[i] = h[k + i]
<1>1. Len(h) \in Nat /\ \A i \in 1 .. Len(h) : h[i] \in HistoryRecord
  BY LenProperties
<1>2. k \in Nat /\ k + 1 \in Int /\ \A i \in k + 1 .. Len(h) : h[i] \in HistoryRecord
  BY <1>1
<1>3. /\ SubSeq(h, k + 1, Len(h)) \in Seq(HistoryRecord)
      /\ Len(SubSeq(h, k + 1, Len(h))) = IF k + 1 <= Len(h) THEN Len(h) - (k + 1) + 1 ELSE 0
      /\ \A i \in 1 .. Len(h) - (k + 1) + 1 : SubSeq(h, k + 1, Len(h))[i] = h[k + 1 + i - 1]
  BY <1>1, <1>2, SubSeqProperties
<1>4. QED
  BY <1>1, <1>2, <1>3 DEF DropOldest

(* Dropping one more record drops the oldest of those left.                *)
LEMMA DropOneMore ==
  ASSUME NEW h \in Seq(HistoryRecord), NEW k \in 0 .. Len(h), DropOldest(h, k) # << >>
  PROVE  k + 1 \in 0 .. Len(h) /\ Tail(DropOldest(h, k)) = DropOldest(h, k + 1)
<1>1. Len(h) \in Nat
  BY LenProperties
<1>2. k # Len(h)
  <2>1. DropOldest(h, Len(h)) = << >>
    BY <1>1, SubSeqEmpty DEF DropOldest
  <2>2. QED BY <2>1
<1>3. k + 1 \in 1 .. Len(h) /\ Len(h) \in k + 1 .. Len(h)
  BY <1>1, <1>2
<1>4. Tail(SubSeq(h, k + 1, Len(h))) = SubSeq(h, k + 1 + 1, Len(h))
  BY <1>3, HeadTailOfSubSeq
<1>5. QED
  BY <1>3, <1>4 DEF DropOldest

(* Dropping nothing leaves the ledger as it is.                            *)
LEMMA DropNone ==
  ASSUME NEW h \in Seq(HistoryRecord)
  PROVE  0 \in 0 .. Len(h) /\ DropOldest(h, 0) = h
<1>1. Len(h) \in Nat
  BY LenProperties
<1>2. QED
  BY <1>1, SubSeqFull DEF DropOldest

(* A set of naturals that is not empty has a least element.                *)
LEMMA LeastNatural ==
  ASSUME NEW T, T \subseteq Nat, T # {}
  PROVE  \E k \in T : \A j \in 0 .. (k - 1) : j \notin T
<1>1. PICK k \in T : \A j \in T : ~ (<<j, k>> \in OpToRel(<, Nat))
  BY NatLessThanWellFounded, WFMin
<1>2. \A j \in T : ~ (j < k)
  BY <1>1 DEF OpToRel
<1>3. QED
  BY <1>2

(* The loop of RetainHistory stops within the ledger, at one that fits: it *)
(* never takes a record from an empty one (history.go:124), because the    *)
(* newest review alone is within the bounds.                               *)
THEOREM EvictionStops ==
  ASSUME NEW h \in Seq(HistoryRecord), NEW newest \in 0 .. MaxHistoryRecordBytes
  PROVE  /\ EvictedCount(h, newest) \in 0 .. Len(h)
         /\ Fits(DropOldest(h, EvictedCount(h, newest)), newest)
<1> DEFINE T == {k \in 0 .. Len(h) : Fits(DropOldest(h, k), newest)}
<1>1. Len(h) \in Nat
  BY LenProperties
<1>2. DropOldest(h, Len(h)) = << >>
  BY <1>1, SubSeqEmpty DEF DropOldest
<1>3. Fits(<< >>, newest)
  BY EmptyHistoryBytes, EmptySeq, LedgerAssumption DEF Fits
<1>4. Len(h) \in T
  BY <1>1, <1>2, <1>3
<1>5. PICK k \in T : \A j \in 0 .. (k - 1) : j \notin T
  <2>1. T \subseteq Nat /\ T # {}
    BY <1>1, <1>4
  <2> HIDE DEF T
  <2>2. QED BY <2>1, LeastNatural
<1>6. /\ k \in 0 .. Len(h)
      /\ Fits(DropOldest(h, k), newest)
      /\ \A j \in 0 .. (k - 1) : ~ Fits(DropOldest(h, j), newest)
  BY <1>1, <1>5
<1>7. QED
  <2> HIDE DEF T
  <2>1. QED BY <1>6 DEF EvictedCount

(* A text quoted in a prompt is within the bound of one record, because a  *)
(* longer one is replaced whole (history.go, injectedBytes).               *)
LEMMA InjectedBytesBound ==
  ASSUME NEW n \in Nat
  PROVE  InjectedBytes(n) \in 0 .. MaxHistoryRecordBytes
BY LedgerAssumption DEF InjectedBytes

(* A superseded round becomes a record (history.go, NewHistoryRecord).     *)
LEMMA NewHistoryRecordType ==
  ASSUME NEW r \in Nat, NEW n \in Nat
  PROVE  NewHistoryRecord(r, n) \in HistoryRecord
BY InjectedBytesBound, LedgerAssumption DEF NewHistoryRecord, HistoryRecord

(* What RetainHistory returns: a suffix of the ledger with the superseded  *)
(* round appended, within the bounds together with the newest review.      *)
LEMMA RetainHistorySuffix ==
  ASSUME NEW h \in Seq(HistoryRecord), NEW p \in HistoryRecord, NEW n \in Nat
  PROVE  \E k \in 0 .. Len(h) + 1 :
           /\ RetainHistory(h, p, n) = DropOldest(Append(h, p), k)
           /\ Fits(RetainHistory(h, p, n), InjectedBytes(n))
<1> DEFINE out == Append(h, p)
<1>1. out \in Seq(HistoryRecord) /\ Len(out) = Len(h) + 1
  BY AppendProperties
<1>2. InjectedBytes(n) \in 0 .. MaxHistoryRecordBytes
  BY InjectedBytesBound
<1>3. /\ EvictedCount(out, InjectedBytes(n)) \in 0 .. Len(out)
      /\ Fits(DropOldest(out, EvictedCount(out, InjectedBytes(n))), InjectedBytes(n))
  <2> HIDE DEF out
  <2>1. QED BY <1>1, <1>2, EvictionStops
<1>4. QED
  BY <1>1, <1>3 DEF RetainHistory

(* RetainHistory returns a ledger.                                         *)
LEMMA RetainHistoryType ==
  ASSUME NEW h \in Seq(HistoryRecord), NEW p \in HistoryRecord, NEW n \in Nat
  PROVE  RetainHistory(h, p, n) \in Seq(HistoryRecord)
<1>1. PICK k \in 0 .. Len(h) + 1 : RetainHistory(h, p, n) = DropOldest(Append(h, p), k)
  BY RetainHistorySuffix
<1>2. Append(h, p) \in Seq(HistoryRecord) /\ Len(Append(h, p)) = Len(h) + 1
  BY AppendProperties
<1>3. QED
  BY <1>1, <1>2, DropOldestProperties

(* What RetainHistory keeps it takes from the ledger, or it is the record  *)
(* of the superseded round.                                                *)
LEMMA RetainHistoryKeeps ==
  ASSUME NEW h \in Seq(HistoryRecord), NEW p \in HistoryRecord, NEW n \in Nat,
         NEW i \in DOMAIN RetainHistory(h, p, n)
  PROVE  \/ RetainHistory(h, p, n)[i] = p
         \/ \E j \in DOMAIN h : h[j] = RetainHistory(h, p, n)[i]
<1> DEFINE out == Append(h, p)
<1>1. /\ out \in Seq(HistoryRecord) /\ Len(out) = Len(h) + 1
      /\ \A j \in 1 .. Len(h) : out[j] = h[j]
      /\ out[Len(h) + 1] = p
  BY AppendProperties
<1>2. Len(h) \in Nat /\ DOMAIN h = 1 .. Len(h)
  BY LenProperties
<1>3. PICK k \in 0 .. Len(h) + 1 : RetainHistory(h, p, n) = DropOldest(out, k)
  BY RetainHistorySuffix
<1> HIDE DEF out
<1>4. /\ DropOldest(out, k) \in Seq(HistoryRecord)
      /\ Len(DropOldest(out, k)) = Len(h) + 1 - k
      /\ \A j \in 1 .. Len(h) + 1 - k : DropOldest(out, k)[j] = out[k + j]
  <2>1. k \in 0 .. Len(out)
    BY <1>1
  <2>2. /\ DropOldest(out, k) \in Seq(HistoryRecord)
        /\ Len(DropOldest(out, k)) = Len(out) - k
        /\ \A j \in 1 .. Len(out) - k : DropOldest(out, k)[j] = out[k + j]
    BY <1>1, <2>1, DropOldestProperties
  <2>3. QED BY <1>1, <2>2
<1>5. DOMAIN DropOldest(out, k) = 1 .. Len(h) + 1 - k
  BY <1>4, LenProperties
<1>6. k + i \in 1 .. Len(h) + 1 /\ RetainHistory(h, p, n)[i] = out[k + i]
  BY <1>2, <1>3, <1>4, <1>5
<1>7. QED
  BY <1>1, <1>2, <1>6

-----------------------------------------------------------------------------
(* A record stays one that the next load accepts.                          *)

(* A first round, with no ledger, is always within the bounds.             *)
LEMMA NoHistoryValid ==
  ASSUME NEW w, w.round \in Nat \ {0}, w.review \in Nat \ {0}, w.history = << >>
  PROVE  ~ Incomplete(w) /\ ~ InvalidHistory(w)
<1>1. ~ Incomplete(w)
  BY DEF Incomplete
<1>2. Len(w.history) = 0 /\ DOMAIN w.history = {}
  BY EmptySeq, LenProperties
<1>3. HistoryBytes(w.history) = 0 /\ InjectedBytes(w.review) \in 0 .. MaxHistoryRecordBytes
  BY EmptyHistoryBytes, InjectedBytesBound
<1>4. QED
  BY <1>1, <1>2, <1>3, LedgerAssumption DEF InvalidHistory

(* The index arithmetic of a run of rounds from which k were dropped.      *)
LEMMA ShiftedRound ==
  \A r, n, k, i \in Int : (r + 1) - (n + 1 - k) + i - 1 = r - n + (k + i) - 1
OBVIOUS

(* A round recorded on a valid record is valid: the rounds stay one run    *)
(* without gaps, and no bound is exceeded.                                 *)
THEOREM RetainHistoryValid ==
  ASSUME NEW w, w.history \in Seq(HistoryRecord), w.round \in Nat, w.review \in Nat,
         ~ Incomplete(w), ~ InvalidHistory(w),
         NEW x, x.round = w.round + 1, x.review \in Nat \ {0},
         x.history =
           RetainHistory(w.history, NewHistoryRecord(w.round, w.review), x.review)
  PROVE  ~ Incomplete(x) /\ ~ InvalidHistory(x)
<1> DEFINE p == NewHistoryRecord(w.round, w.review)
           out == Append(w.history, p)
<1>1. p \in HistoryRecord
  BY NewHistoryRecordType
<1>2. Len(w.history) \in Nat
  BY LenProperties
<1>3. /\ out \in Seq(HistoryRecord) /\ Len(out) = Len(w.history) + 1
      /\ \A i \in 1 .. Len(w.history) : out[i] = w.history[i]
      /\ out[Len(w.history) + 1] = p
  BY <1>1, AppendProperties
<1>4. PICK k \in 0 .. Len(w.history) + 1 :
        /\ x.history = DropOldest(out, k)
        /\ Fits(x.history, InjectedBytes(x.review))
  BY <1>1, RetainHistorySuffix
<1>5. /\ x.history \in Seq(HistoryRecord)
      /\ Len(x.history) = Len(w.history) + 1 - k
      /\ \A i \in 1 .. Len(w.history) + 1 - k : x.history[i] = out[k + i]
  <2> HIDE DEF out
  <2>1. k \in 0 .. Len(out)
    BY <1>3, <1>4
  <2>2. /\ DropOldest(out, k) \in Seq(HistoryRecord)
        /\ Len(DropOldest(out, k)) = Len(out) - k
        /\ \A i \in 1 .. Len(out) - k : DropOldest(out, k)[i] = out[k + i]
    BY <1>3, <2>1, DropOldestProperties
  <2>3. QED BY <1>3, <1>4, <2>2
<1>6. \A i \in 1 .. Len(w.history) + 1 :
        /\ out[i].round = w.round - Len(w.history) + i - 1
        /\ out[i].round >= 1
        /\ ~ ((out[i].review # 0) = out[i].omitted)
        /\ ~ (out[i].review > MaxHistoryRecordBytes)
  <2>1. TAKE i \in 1 .. Len(w.history) + 1
  <2>2. CASE i = Len(w.history) + 1
    <3>1. /\ out[i].round = w.round
          /\ out[i].review = InjectedBytes(w.review)
          /\ out[i].omitted = (w.review > MaxHistoryRecordBytes)
      BY <1>3, <2>2 DEF NewHistoryRecord
    <3>2. w.round >= 1 /\ w.review > 0
      BY DEF Incomplete
    <3>3. QED
      BY <1>2, <2>2, <3>1, <3>2, LedgerAssumption DEF InjectedBytes
  <2>3. CASE i \in 1 .. Len(w.history)
    <3>1. ~ InvalidRecord(w, i)
      BY <2>3, LenProperties DEF InvalidHistory
    <3>2. out[i] = w.history[i] /\ w.history[i] \in HistoryRecord
      BY <1>3, <2>3, ElementOfSeq
    <3>3. QED
      BY <1>2, <2>3, <3>1, <3>2, LedgerAssumption DEF InvalidRecord, HistoryRecord
  <2>4. QED BY <1>2, <2>2, <2>3
<1>7. \A i \in DOMAIN x.history : ~ InvalidRecord(x, i)
  <2>1. TAKE i \in DOMAIN x.history
  <2>2. i \in 1 .. Len(w.history) + 1 - k /\ k + i \in 1 .. Len(w.history) + 1
    BY SMTT(30), <1>2, <1>5, LenProperties
  <2>3. x.history[i] = out[k + i]
    BY <1>5, <2>2
  <2> HIDE DEF out
  <2>4. /\ x.history[i].round = w.round - Len(w.history) + (k + i) - 1
        /\ x.history[i].round >= 1
        /\ ~ ((x.history[i].review # 0) = x.history[i].omitted)
        /\ ~ (x.history[i].review > MaxHistoryRecordBytes)
    BY <1>6, <2>2, <2>3
  <2>5. x.round - Len(x.history) + i - 1 = w.round - Len(w.history) + (k + i) - 1
    <3>1. i \in Int /\ k \in Int /\ Len(w.history) \in Int /\ w.round \in Int
      BY <1>2, <2>2
    <3>2. Len(x.history) = Len(w.history) + 1 - k /\ x.round = w.round + 1
      BY <1>5
    <3>3. (w.round + 1) - (Len(w.history) + 1 - k) + i - 1
            = w.round - Len(w.history) + (k + i) - 1
      BY <3>1, ShiftedRound, ZenonT(60)
    <3>4. QED
      BY <3>2, <3>3, Zenon
  <2>6. QED
    BY SMTT(30), <2>4, <2>5 DEF InvalidRecord
<1>8. ~ (Len(x.history) > MaxHistoryRecords) /\
      ~ (HistoryBytes(x.history) + InjectedBytes(x.review) > MaxHistoryBytes)
  <2>1. HistoryBytes(x.history) \in Nat
    BY <1>5, QuotedBytesFinite
  <2>2. InjectedBytes(x.review) \in Nat
    <3>1. x.review \in Nat
      OBVIOUS
    <3>2. InjectedBytes(x.review) \in 0 .. MaxHistoryRecordBytes
      BY <3>1, InjectedBytesBound
    <3>3. QED BY <3>2, LedgerAssumption
  <2>3. Len(x.history) \in Nat
    BY <1>5, LenProperties
  <2>4. QED
    BY <1>4, <2>1, <2>2, <2>3, LedgerAssumption DEF Fits
<1>9. QED
  BY <1>7, <1>8 DEF InvalidHistory, Incomplete

(* Dropping the oldest record quotes no more than before.                  *)
LEMMA TailBytes ==
  ASSUME NEW h \in Seq(HistoryRecord), h # << >>
  PROVE  HistoryBytes(Tail(h)) <= HistoryBytes(h)
<1> DEFINE Q == QuotedBytes(h)
           R == QuotedBytes(Tail(h))
           f == [q \in R |-> <<q[1] + 1, q[2]>>]
<1>1. /\ Tail(h) \in Seq(HistoryRecord)
      /\ Len(Tail(h)) = Len(h) - 1
      /\ \A i \in 1 .. Len(Tail(h)) : Tail(h)[i] = h[i + 1]
  BY HeadTailProperties
<1>2. /\ Len(h) \in Nat /\ DOMAIN h = 1 .. Len(h)
      /\ DOMAIN Tail(h) = 1 .. Len(Tail(h)) /\ Len(Tail(h)) \in Nat
  BY <1>1, LenProperties
<1>3. \A q \in R : /\ q = <<q[1], q[2]>>
                   /\ q[1] \in 1 .. Len(h) - 1
                   /\ q[2] \in 1 .. h[q[1] + 1].review
  <2>1. TAKE q \in R
  <2>2. PICK i \in DOMAIN Tail(h) : q \in {i} \X (1 .. Tail(h)[i].review)
    BY DEF QuotedBytes
  <2>3. i \in 1 .. Len(h) - 1 /\ Tail(h)[i] = h[i + 1]
    BY <1>1, <1>2
  <2>4. q = <<q[1], q[2]>> /\ q[1] = i /\ q[2] \in 1 .. Tail(h)[i].review
    BY <2>2
  <2>5. QED
    BY <2>3, <2>4
<1>4. \A q \in R : <<q[1] + 1, q[2]>> \in Q
  <2>1. TAKE q \in R
  <2>2. q[1] + 1 \in DOMAIN h
    BY <1>2, <1>3
  <2>3. <<q[1] + 1, q[2]>> \in {q[1] + 1} \X (1 .. h[q[1] + 1].review)
    BY <1>3
  <2>4. QED
    BY <2>2, <2>3 DEF QuotedBytes
<1>5. f \in Injection(R, Q)
  <2>1. f \in [R -> Q]
    BY <1>4
  <2>2. ASSUME NEW q \in R, NEW r \in R, f[q] = f[r] PROVE q = r
    <3>1. q[1] + 1 = r[1] + 1 /\ q[2] = r[2]
      BY <2>2
    <3>2. q[1] = r[1]
      BY <1>2, <1>3, <3>1
    <3>3. QED BY <1>3, <3>1, <3>2, Zenon
  <2> HIDE DEF f, R, Q
  <2>3. QED BY <2>1, <2>2 DEF Injection, IsInjective
<1>6. IsFiniteSet(Q)
  BY QuotedBytesFinite
<1>7. QED
  <2> HIDE DEF f, R, Q
  <2>1. Cardinality(R) <= Cardinality(Q)
    BY <1>5, <1>6, FS_Injection
  <2>2. QED BY <2>1 DEF R, Q, HistoryBytes

(* Evicting the oldest record of a valid ledger leaves a valid one.        *)
THEOREM TailValid ==
  ASSUME NEW w, w.history \in Seq(HistoryRecord), w.history # << >>,
         w.round \in Nat, w.review \in Nat, ~ InvalidHistory(w),
         NEW x, x.round = w.round, x.review = w.review, x.history = Tail(w.history)
  PROVE  ~ InvalidHistory(x)
<1>1. /\ Tail(w.history) \in Seq(HistoryRecord)
      /\ Len(Tail(w.history)) = Len(w.history) - 1
      /\ \A i \in 1 .. Len(Tail(w.history)) : Tail(w.history)[i] = w.history[i + 1]
  BY HeadTailProperties
<1>2. /\ Len(w.history) \in Nat /\ DOMAIN w.history = 1 .. Len(w.history)
      /\ DOMAIN x.history = 1 .. Len(w.history) - 1
  BY <1>1, LenProperties
<1>3. ~ (Len(x.history) > MaxHistoryRecords)
  BY <1>1, <1>2, LedgerAssumption DEF InvalidHistory
<1>4. \A i \in DOMAIN x.history : ~ InvalidRecord(x, i)
  <2>1. TAKE i \in DOMAIN x.history
  <2>2. i \in Int /\ i + 1 \in DOMAIN w.history /\ x.history[i] = w.history[i + 1]
    BY <1>1, <1>2
  <2>3. ~ InvalidRecord(w, i + 1)
    BY <2>2 DEF InvalidHistory
  <2>4. x.round - Len(x.history) + i - 1 = w.round - Len(w.history) + (i + 1) - 1
    BY SMTT(30), <1>1, <1>2, <2>2
  <2>5. QED
    BY <2>2, <2>3, <2>4 DEF InvalidRecord
<1>5. ~ (HistoryBytes(x.history) + InjectedBytes(x.review) > MaxHistoryBytes)
  <2>1. HistoryBytes(x.history) <= HistoryBytes(w.history)
    BY TailBytes
  <2>2. HistoryBytes(x.history) \in Nat /\ HistoryBytes(w.history) \in Nat
    BY <1>1, QuotedBytesFinite
  <2>3. InjectedBytes(w.review) \in 0 .. MaxHistoryRecordBytes
    BY InjectedBytesBound
  <2>4. ~ (HistoryBytes(w.history) + InjectedBytes(w.review) > MaxHistoryBytes)
    BY DEF InvalidHistory
  <2>5. QED
    BY <2>1, <2>2, <2>3, <2>4, LedgerAssumption
<1>6. QED
  BY <1>3, <1>4, <1>5 DEF InvalidHistory

-----------------------------------------------------------------------------
(* The size of the encoded file.                                           *)

(* What one workflow costs in the file is finite.                          *)
LEMMA BytesOfFinite ==
  ASSUME NEW w, w.history \in Seq(HistoryRecord), w.review \in Nat
  PROVE  IsFiniteSet(BytesOf(w))
<1> DEFINE Entry == {"entry"} \X (0 .. w.review)
           Quoted == {"quoted"} \X QuotedBytes(w.history)
           Framing == {"framing"} \X ((DOMAIN w.history) \X (1 .. RecordFraming))
<1>1. IsFiniteSet(Entry)
  <2>1. IsFiniteSet(0 .. w.review)
    BY FS_Interval, w.review \in Int, 0 \in Int
  <2>2. IsFiniteSet({"entry"})
    BY FS_Singleton
  <2>3. QED BY <2>1, <2>2, FS_Product
<1>2. IsFiniteSet(Quoted)
  <2>1. IsFiniteSet(QuotedBytes(w.history))
    BY QuotedBytesFinite
  <2>2. IsFiniteSet({"quoted"})
    BY FS_Singleton
  <2>3. QED BY <2>1, <2>2, FS_Product
<1>3. IsFiniteSet(Framing)
  <2>1. Len(w.history) \in Int /\ DOMAIN w.history = 1 .. Len(w.history)
    BY LenProperties
  <2>2. IsFiniteSet(1 .. Len(w.history))
    BY <2>1, 1 \in Int, FS_Interval
  <2>3. IsFiniteSet(1 .. RecordFraming)
    BY LedgerAssumption, RecordFraming \in Int, 1 \in Int, FS_Interval
  <2>4. IsFiniteSet((DOMAIN w.history) \X (1 .. RecordFraming))
    BY <2>1, <2>2, <2>3, FS_Product
  <2>5. IsFiniteSet({"framing"})
    BY FS_Singleton
  <2>6. QED BY <2>4, <2>5, FS_Product
<1>4. BytesOf(w) = (Entry \cup Quoted) \cup Framing
  BY DEF BytesOf
<1>5. QED
  <2> HIDE DEF Entry, Quoted, Framing
  <2>1. IsFiniteSet(Entry \cup Quoted)
    BY <1>1, <1>2, FS_Union
  <2>2. IsFiniteSet((Entry \cup Quoted) \cup Framing)
    BY <1>3, <2>1, FS_Union
  <2>3. QED BY <1>4, <2>2

(* json.Marshal returns a length: the eviction loop compares naturals.     *)
LEMMA EncodedBytesType ==
  ASSUME NEW s, IsFiniteSet(DOMAIN s),
         \A w \in DOMAIN s : s[w] # NoWorkflow =>
           s[w].history \in Seq(HistoryRecord) /\ s[w].review \in Nat
  PROVE  EncodedBytes(s) \in Nat
<1> DEFINE P == Present(s)
           Bytes(w) == {w} \X BytesOf(s[w])
           B == {Bytes(w) : w \in P}
           f == [w \in P |-> Bytes(w)]
<1>1. IsFiniteSet(P)
  BY FS_Subset DEF Present
<1>2. IsFiniteSet(B)
  <2> HIDE DEF Bytes, P
  <2>1. f \in Surjection(P, B)
    BY DEF Surjection
  <2>2. QED
    BY <1>1, <2>1, FS_Surjection
<1>3. \A T \in B : IsFiniteSet(T)
  <2>1. SUFFICES ASSUME NEW w \in P PROVE IsFiniteSet(Bytes(w))
    OBVIOUS
  <2>2. IsFiniteSet(BytesOf(s[w]))
    BY BytesOfFinite DEF Present
  <2>3. IsFiniteSet({w})
    BY FS_Singleton
  <2>4. QED BY <2>2, <2>3, FS_Product
<1>4. IsFiniteSet(UNION B)
  <2> HIDE DEF B
  <2>1. QED BY <1>2, <1>3, FS_UNION
<1>5. QED
  BY <1>4, FS_CardinalityType DEF EncodedBytes
(* The entry, the quoted text and the framing of a workflow are disjoint,  *)
(* so its cost in the file is their sum.                                   *)
LEMMA BytesOfSize ==
  ASSUME NEW w, w.history \in Seq(HistoryRecord), w.review \in Nat
  PROVE  Cardinality(BytesOf(w)) =
           w.review + 1 + HistoryBytes(w.history) + Len(w.history) * RecordFraming
<1> DEFINE Entry == {"entry"} \X (0 .. w.review)
           Quoted == {"quoted"} \X QuotedBytes(w.history)
           Framing == {"framing"} \X ((DOMAIN w.history) \X (1 .. RecordFraming))
<1>1. IsFiniteSet(Entry) /\ Cardinality(Entry) = w.review + 1
  <2>1. IsFiniteSet(0 .. w.review) /\ Cardinality(0 .. w.review) = w.review + 1
    <3>1. /\ IsFiniteSet(0 .. w.review)
          /\ Cardinality(0 .. w.review) = IF 0 > w.review THEN 0 ELSE w.review - 0 + 1
      BY FS_Interval, w.review \in Int, 0 \in Int, Zenon
    <3>2. QED BY <3>1
  <2>2. IsFiniteSet({"entry"}) /\ Cardinality({"entry"}) = 1
    BY FS_Singleton
  <2>3. IsFiniteSet(Entry) /\ Cardinality(Entry) = 1 * (w.review + 1)
    <3>1. IsFiniteSet(Entry) /\ Cardinality(Entry) = Cardinality({"entry"}) * Cardinality(0 .. w.review)
      BY ONLY <2>1, <2>2, FS_Product, Zenon
    <3>2. QED BY <2>1, <2>2, <3>1, Zenon
  <2>4. QED BY <2>3
<1>2. IsFiniteSet(Quoted) /\ Cardinality(Quoted) = HistoryBytes(w.history)
  <2>1. IsFiniteSet(QuotedBytes(w.history)) /\ HistoryBytes(w.history) \in Nat
    BY QuotedBytesFinite
  <2>2. IsFiniteSet({"quoted"}) /\ Cardinality({"quoted"}) = 1
    BY FS_Singleton
  <2>3. IsFiniteSet(Quoted) /\ Cardinality(Quoted) = 1 * HistoryBytes(w.history)
    BY <2>1, <2>2, FS_Product DEF HistoryBytes
  <2>4. QED BY <2>1, <2>3
<1>3. IsFiniteSet(Framing) /\ Cardinality(Framing) = Len(w.history) * RecordFraming
  <2>1. Len(w.history) \in Nat /\ DOMAIN w.history = 1 .. Len(w.history)
    BY LenProperties
  <2>2. IsFiniteSet(1 .. Len(w.history)) /\ Cardinality(1 .. Len(w.history)) = Len(w.history)
    BY <2>1, 1 \in Int, FS_Interval
  <2>3. IsFiniteSet(1 .. RecordFraming) /\ Cardinality(1 .. RecordFraming) = RecordFraming
    BY LedgerAssumption, RecordFraming \in Int, 1 \in Int, FS_Interval
  <2> DEFINE records == (DOMAIN w.history) \X (1 .. RecordFraming)
  <2>4. IsFiniteSet(records) /\ Cardinality(records) = Len(w.history) * RecordFraming
    <3>1. records = (1 .. Len(w.history)) \X (1 .. RecordFraming)
      BY <2>1
    <3>2. /\ IsFiniteSet(records)
          /\ Cardinality(records) =
               Cardinality(1 .. Len(w.history)) * Cardinality(1 .. RecordFraming)
      BY <2>2, <2>3, <3>1, FS_Product, Zenon
    <3>3. QED BY <2>2, <2>3, <3>2, Zenon
  <2>5. IsFiniteSet({"framing"}) /\ Cardinality({"framing"}) = 1
    BY FS_Singleton
  <2> HIDE DEF records
  <2>6. /\ IsFiniteSet({"framing"} \X records)
        /\ Cardinality({"framing"} \X records) = 1 * Cardinality(records)
    BY <2>4, <2>5, FS_Product
  <2>7. Cardinality(records) \in Nat
    BY <2>4, FS_CardinalityType
  <2>8. QED BY <2>4, <2>6, <2>7 DEF records
<1>4. BytesOf(w) = (Entry \cup Quoted) \cup Framing
  BY DEF BytesOf
<1>5. /\ Entry \cap Quoted = {}
      /\ (Entry \cup Quoted) \cap Framing = {}
  OBVIOUS
<1>6. /\ Cardinality(Entry) \in Nat /\ Cardinality(Quoted) \in Nat
      /\ Cardinality(Framing) \in Nat
  BY <1>1, <1>2, <1>3, FS_CardinalityType
<1>7. QED
  <2> HIDE DEF Entry, Quoted, Framing
  <2>1. Cardinality({}) = 0
    BY FS_EmptySet
  <2>2. /\ IsFiniteSet(Entry \cup Quoted)
        /\ Cardinality(Entry \cup Quoted) =
             Cardinality(Entry) + Cardinality(Quoted) - Cardinality(Entry \cap Quoted)
    BY <1>1, <1>2, FS_Union
  <2>3. Cardinality((Entry \cup Quoted) \cup Framing) =
          Cardinality(Entry \cup Quoted) + Cardinality(Framing)
            - Cardinality((Entry \cup Quoted) \cap Framing)
    BY <1>3, <2>2, FS_Union
  <2>4. Cardinality(Entry \cup Quoted) = Cardinality(Entry) + Cardinality(Quoted)
    <3>1. Cardinality(Entry \cap Quoted) = 0
      BY <1>5, <2>1, Zenon
    <3>2. QED BY <1>6, <2>2, <3>1
  <2>5. Cardinality(BytesOf(w)) =
          Cardinality(Entry) + Cardinality(Quoted) + Cardinality(Framing)
    <3>1. Cardinality((Entry \cup Quoted) \cap Framing) = 0
      BY <1>5, <2>1, Zenon
    <3>2. Cardinality(BytesOf(w)) = Cardinality((Entry \cup Quoted) \cup Framing)
      BY <1>4, Zenon
    <3>3. QED BY <1>6, <2>3, <2>4, <3>1, <3>2
  <2>6. QED
    BY <1>1, <1>2, <1>3, <2>5

(* A ledger quotes no more than its oldest record and the rest of it do.   *)
LEMMA HeadBytes ==
  ASSUME NEW h \in Seq(HistoryRecord), h # << >>
  PROVE  HistoryBytes(h) <= Head(h).review + HistoryBytes(Tail(h))
<1> DEFINE Q == QuotedBytes(h)
           R == QuotedBytes(Tail(h))
           X == {1} \X (1 .. Head(h).review)
           f == [q \in Q \ X |-> <<q[1] - 1, q[2]>>]
<1>1. /\ Tail(h) \in Seq(HistoryRecord)
      /\ Len(Tail(h)) = Len(h) - 1
      /\ \A i \in 1 .. Len(Tail(h)) : Tail(h)[i] = h[i + 1]
  BY HeadTailProperties
<1>2. /\ Len(h) \in Nat /\ DOMAIN h = 1 .. Len(h)
      /\ DOMAIN Tail(h) = 1 .. Len(Tail(h)) /\ Len(Tail(h)) \in Nat
  BY <1>1, LenProperties
<1>3. Head(h) = h[1] /\ Head(h).review \in Nat
  <2>1. Head(h) \in HistoryRecord
    BY HeadTailProperties
  <2>2. QED BY <2>1 DEF HistoryRecord
<1>4. \A q \in Q \ X : /\ q = <<q[1], q[2]>>
                       /\ q[1] - 1 \in 1 .. Len(h) - 1
                       /\ q[2] \in 1 .. h[q[1]].review
  <2>1. TAKE q \in Q \ X
  <2>2. PICK i \in DOMAIN h : q \in {i} \X (1 .. h[i].review)
    BY DEF QuotedBytes
  <2>3. q = <<q[1], q[2]>> /\ q[1] = i /\ q[2] \in 1 .. h[i].review
    BY <2>2
  <2>4. i # 1
    BY <1>3, <2>2
  <2>5. QED
    BY <1>2, <2>3, <2>4
<1>5. \A q \in Q \ X : <<q[1] - 1, q[2]>> \in R
  <2>1. TAKE q \in Q \ X
  <2>2. q[1] \in Int
    BY <1>2 DEF QuotedBytes
  <2>3. q[1] - 1 \in DOMAIN Tail(h) /\ Tail(h)[q[1] - 1] = h[q[1]]
    <3>1. q[1] - 1 \in 1 .. Len(Tail(h)) /\ (q[1] - 1) + 1 = q[1]
      BY <1>1, <1>2, <1>4, <2>2
    <3>2. QED BY <1>1, <1>2, <3>1
  <2>4. <<q[1] - 1, q[2]>> \in {q[1] - 1} \X (1 .. Tail(h)[q[1] - 1].review)
    BY <1>4, <2>3
  <2>5. QED
    BY <2>3, <2>4 DEF QuotedBytes
<1>6. f \in Injection(Q \ X, R)
  <2>1. f \in [Q \ X -> R]
    BY <1>5
  <2>2. ASSUME NEW q \in Q \ X, NEW r \in Q \ X, f[q] = f[r] PROVE q = r
    <3>1. q[1] - 1 = r[1] - 1 /\ q[2] = r[2]
      BY <2>2
    <3>2. q[1] = r[1]
      <4>1. q[1] \in Int /\ r[1] \in Int
        <5>1. \A p \in Q : p[1] \in Int
          BY <1>2 DEF QuotedBytes
        <5>2. QED BY <5>1
      <4>2. QED BY <3>1, <4>1
    <3>3. QED BY <1>4, <3>1, <3>2, Zenon
  <2> HIDE DEF f, R, Q, X
  <2>3. QED BY <2>1, <2>2 DEF Injection, IsInjective
<1>7. IsFiniteSet(Q) /\ IsFiniteSet(R)
  BY <1>1, QuotedBytesFinite
<1>8. IsFiniteSet(X) /\ Cardinality(X) = Head(h).review
  <2>1. /\ IsFiniteSet(1 .. Head(h).review)
        /\ Cardinality(1 .. Head(h).review) = Head(h).review
    <3>1. 1 \in Int /\ Head(h).review \in Int
      BY <1>3
    <3>2. /\ IsFiniteSet(1 .. Head(h).review)
          /\ Cardinality(1 .. Head(h).review) =
               IF 1 > Head(h).review THEN 0 ELSE Head(h).review - 1 + 1
      BY <3>1, FS_Interval, Zenon
    <3>3. QED BY <1>3, <3>2
  <2>2. IsFiniteSet({1}) /\ Cardinality({1}) = 1
    BY FS_Singleton
  <2>3. IsFiniteSet(X) /\ Cardinality(X) = 1 * Head(h).review
    <3>1. /\ IsFiniteSet({1} \X (1 .. Head(h).review))
          /\ Cardinality({1} \X (1 .. Head(h).review)) =
               Cardinality({1}) * Cardinality(1 .. Head(h).review)
      BY <2>1, <2>2, FS_Product
    <3>2. QED BY <2>1, <2>2, <3>1, Zenon
  <2>4. QED BY <1>3, <2>3
<1>9. QED
  <2> HIDE DEF f, R, Q, X
  <2>1. Cardinality(Q \ X) <= Cardinality(R)
    BY <1>6, <1>7, FS_Injection
  <2>2. IsFiniteSet(Q \ X) /\ IsFiniteSet((Q \ X) \cap X) /\ (Q \ X) \cap X = {}
    BY <1>7, FS_Difference, FS_EmptySet
  <2>3. /\ IsFiniteSet((Q \ X) \cup X)
        /\ Cardinality((Q \ X) \cup X) = Cardinality(Q \ X) + Cardinality(X) - Cardinality((Q \ X) \cap X)
    BY <1>8, <2>2, FS_Union
  <2>4. Q \in SUBSET ((Q \ X) \cup X)
    OBVIOUS
  <2>5. Cardinality(Q) <= Cardinality((Q \ X) \cup X)
    BY <2>3, <2>4, FS_Subset
  <2>6. /\ Cardinality(Q) \in Nat /\ Cardinality(R) \in Nat /\ Cardinality(X) \in Nat
        /\ Cardinality(Q \ X) \in Nat /\ Cardinality((Q \ X) \cap X) = 0
        /\ Cardinality((Q \ X) \cup X) \in Nat
    BY <1>7, <1>8, <2>2, <2>3, FS_CardinalityType, FS_EmptySet
  <2>7. Cardinality(Q) <= Cardinality(X) + Cardinality(R)
    BY <2>1, <2>3, <2>5, <2>6
  <2>8. QED BY <1>8, <2>7 DEF Q, R, HistoryBytes

(* The cost of the file is that of one workflow and that of the others.    *)
LEMMA EncodedBytesSplit ==
  ASSUME NEW s, IsFiniteSet(DOMAIN s),
         \A v \in DOMAIN s : s[v] # NoWorkflow =>
           s[v].history \in Seq(HistoryRecord) /\ s[v].review \in Nat,
         NEW w \in DOMAIN s, s[w] # NoWorkflow
  PROVE  LET others == UNION {{v} \X BytesOf(s[v]) : v \in Present(s) \ {w}}
         IN  /\ IsFiniteSet(others)
             /\ EncodedBytes(s) = Cardinality(others) + Cardinality(BytesOf(s[w]))
<1> DEFINE Bytes(v) == {v} \X BytesOf(s[v])
           P == Present(s) \ {w}
           B == {Bytes(v) : v \in P}
           f == [v \in P |-> Bytes(v)]
           others == UNION B
<1>1. IsFiniteSet(P)
  BY FS_Subset DEF Present
<1>2. IsFiniteSet(B)
  <2> HIDE DEF Bytes, P
  <2>1. f \in Surjection(P, B)
    BY DEF Surjection
  <2>2. QED
    BY <1>1, <2>1, FS_Surjection
<1>3. \A T \in B : IsFiniteSet(T)
  <2>1. SUFFICES ASSUME NEW v \in P PROVE IsFiniteSet(Bytes(v))
    OBVIOUS
  <2>2. IsFiniteSet(BytesOf(s[v]))
    BY BytesOfFinite DEF Present
  <2>3. IsFiniteSet({v})
    BY FS_Singleton
  <2>4. QED BY <2>2, <2>3, FS_Product
<1>4. IsFiniteSet(others)
  <2> HIDE DEF B
  <2>1. QED BY <1>2, <1>3, FS_UNION
<1>5. IsFiniteSet(Bytes(w)) /\ Cardinality(Bytes(w)) = Cardinality(BytesOf(s[w]))
  <2>1. IsFiniteSet(BytesOf(s[w])) /\ Cardinality(BytesOf(s[w])) \in Nat
    BY BytesOfFinite, FS_CardinalityType
  <2>2. IsFiniteSet({w}) /\ Cardinality({w}) = 1
    BY FS_Singleton
  <2>3. /\ IsFiniteSet({w} \X BytesOf(s[w]))
        /\ Cardinality({w} \X BytesOf(s[w])) = 1 * Cardinality(BytesOf(s[w]))
    BY <2>1, <2>2, FS_Product
  <2>4. QED BY <2>1, <2>3
<1>6. others \cap Bytes(w) = {}
  OBVIOUS
<1>7. UNION {Bytes(v) : v \in Present(s)} = others \cup Bytes(w)
  <2>1. w \in Present(s)
    BY DEF Present
  <2> HIDE DEF Bytes
  <2>2. QED BY <2>1
<1>8. EncodedBytes(s) = Cardinality(others \cup Bytes(w))
  BY <1>7 DEF EncodedBytes
<1>9. Cardinality(others \cup Bytes(w)) = Cardinality(others) + Cardinality(BytesOf(s[w]))
  <2> HIDE DEF others, Bytes
  <2>1. Cardinality(others \cup Bytes(w)) =
          Cardinality(others) + Cardinality(Bytes(w)) - Cardinality(others \cap Bytes(w))
    BY <1>4, <1>5, FS_Union
  <2>2. Cardinality(others \cap Bytes(w)) = 0
    BY <1>6, FS_EmptySet
  <2>3. Cardinality(others) \in Nat /\ Cardinality(Bytes(w)) \in Nat
    BY <1>4, <1>5, FS_CardinalityType
  <2>4. QED BY <1>5, <2>1, <2>2, <2>3
<1>10. QED
  BY <1>4, <1>8, <1>9

(* What the eviction loop counts as freed for a record is never less than  *)
(* what removing it frees, so the file is too large as long as the loop    *)
(* has counted less than it needs (review.go, historyRecordBytes).         *)
THEOREM EvictionEstimate ==
  ASSUME NEW s, IsFiniteSet(DOMAIN s),
         \A v \in DOMAIN s : s[v] # NoWorkflow =>
           s[v].history \in Seq(HistoryRecord) /\ s[v].review \in Nat,
         NEW w \in DOMAIN s, s[w] # NoWorkflow, s[w].history # << >>,
         NEW t, DOMAIN t = DOMAIN s, \A v \in DOMAIN s \ {w} : t[v] = s[v],
         t[w] # NoWorkflow, t[w].review = s[w].review,
         t[w].history = Tail(s[w].history)
  PROVE  EncodedBytes(s) <= EncodedBytes(t) + HistoryRecordBytes(Head(s[w].history))
<1> DEFINE h == s[w].history
           others == UNION {{v} \X BytesOf(s[v]) : v \in Present(s) \ {w}}
<1>1. /\ h \in Seq(HistoryRecord) /\ Tail(h) \in Seq(HistoryRecord)
      /\ Len(Tail(h)) = Len(h) - 1 /\ Head(h).review \in Nat
  <2>1. h \in Seq(HistoryRecord)
    OBVIOUS
  <2>2. /\ Tail(h) \in Seq(HistoryRecord) /\ Len(Tail(h)) = Len(h) - 1
        /\ Head(h) \in HistoryRecord
    <3> HIDE DEF h
    <3>1. h # << >>
      BY DEF h
    <3>2. QED BY <2>1, <3>1, HeadTailProperties
  <2>3. QED
    BY <2>1, <2>2 DEF HistoryRecord
<1>2. IsFiniteSet(others) /\ EncodedBytes(s) = Cardinality(others) + Cardinality(BytesOf(s[w]))
  BY EncodedBytesSplit
<1>3. EncodedBytes(t) = Cardinality(others) + Cardinality(BytesOf(t[w]))
  <2>1. \A v \in DOMAIN t : t[v] # NoWorkflow =>
          t[v].history \in Seq(HistoryRecord) /\ t[v].review \in Nat
    BY <1>1
  <2>2. Present(t) \ {w} = Present(s) \ {w}
    BY DEF Present
  <2>3. \A v \in Present(s) \ {w} : t[v] = s[v]
    BY DEF Present
  <2>4. UNION {{v} \X BytesOf(t[v]) : v \in Present(t) \ {w}} = others
    <3>1. {{v} \X BytesOf(t[v]) : v \in Present(t) \ {w}}
            = {{v} \X BytesOf(s[v]) : v \in Present(s) \ {w}}
      BY <2>2, <2>3, Zenon
    <3>2. QED BY <3>1, Zenon
  <2>5. EncodedBytes(t) =
          Cardinality(UNION {{v} \X BytesOf(t[v]) : v \in Present(t) \ {w}})
            + Cardinality(BytesOf(t[w]))
    BY <2>1, EncodedBytesSplit, Zenon
  <2>6. QED BY <2>4, <2>5, Zenon
<1>4. Cardinality(BytesOf(s[w])) =
        s[w].review + 1 + HistoryBytes(h) + Len(h) * RecordFraming
  BY <1>1, BytesOfSize
<1>5. Cardinality(BytesOf(t[w])) =
        s[w].review + 1 + HistoryBytes(Tail(h)) + Len(Tail(h)) * RecordFraming
  BY <1>1, BytesOfSize
<1>6. HistoryBytes(h) <= Head(h).review + HistoryBytes(Tail(h))
  BY <1>1, HeadBytes
<1>7. /\ HistoryBytes(h) \in Nat /\ HistoryBytes(Tail(h)) \in Nat
      /\ Len(h) \in Nat /\ Cardinality(others) \in Nat
  BY <1>1, <1>2, QuotedBytesFinite, LenProperties, FS_CardinalityType
<1>8. Len(h) * RecordFraming = Len(Tail(h)) * RecordFraming + RecordFraming
  <2>1. \A n, r \in Int : n * r = (n - 1) * r + r
    OBVIOUS
  <2>2. QED BY <1>1, <1>7, <2>1, LedgerAssumption
<1>9. /\ RecordFraming \in Nat /\ RecordFramingBytes \in Nat
      /\ RecordFraming <= RecordFramingBytes
      /\ Len(Tail(h)) * RecordFraming \in Nat
  <2>1. \A n, r \in Nat : n * r \in Nat
    OBVIOUS
  <2>2. Tail(h) \in Seq(HistoryRecord) => Len(Tail(h)) \in Nat
    BY LenProperties
  <2>3. QED BY <1>1, <2>1, <2>2, LedgerAssumption
<1> HIDE DEF h, others
<1> DEFINE framing == Len(Tail(h)) * RecordFraming
<1>10. Cardinality(BytesOf(s[w])) <=
         Cardinality(BytesOf(t[w])) + Head(h).review + RecordFramingBytes
  <2>1. Len(h) * RecordFraming = framing + RecordFraming /\ framing \in Nat
    BY <1>8, <1>9
  <2>2. Cardinality(BytesOf(t[w])) = s[w].review + 1 + HistoryBytes(Tail(h)) + framing
    BY <1>5
  <2> HIDE DEF framing
  <2>3. Cardinality(BytesOf(s[w])) =
          s[w].review + 1 + HistoryBytes(h) + framing + RecordFraming
    BY <1>4, <1>7, <1>9, <2>1
  <2>4. QED
    <3>1. HistoryBytes(h) <= Head(h).review + HistoryBytes(Tail(h))
      BY <1>6 DEF h
    <3>2. s[w].review \in Nat
      OBVIOUS
    <3>3. /\ RecordFraming \in Nat /\ RecordFramingBytes \in Nat
          /\ RecordFraming <= RecordFramingBytes
          /\ Head(h).review \in Nat /\ framing \in Nat
      BY <1>1, <1>9, <2>1
    <3>4. \A n, p, q, d, g, x, y \in Nat :
            p <= d + q /\ x <= y => n + 1 + p + g + x <= n + 1 + q + g + d + y
      OBVIOUS
    <3>5. s[w].review + 1 + HistoryBytes(h) + framing + RecordFraming <=
            s[w].review + 1 + HistoryBytes(Tail(h)) + framing + Head(h).review
              + RecordFramingBytes
      BY ONLY <1>7, <3>1, <3>2, <3>3, <3>4
    <3>6. QED BY ONLY <2>2, <2>3, <3>5, Zenon
<1>11. QED
  <2>1. Cardinality(BytesOf(s[w])) \in Nat /\ Cardinality(BytesOf(t[w])) \in Nat
    <3>1. IsFiniteSet(BytesOf(s[w])) /\ IsFiniteSet(BytesOf(t[w]))
      BY <1>1, BytesOfFinite DEF h
    <3>2. QED BY <3>1, FS_CardinalityType
  <2>2. EncodedBytes(s) <= EncodedBytes(t) + (Head(h).review + RecordFramingBytes)
    BY SMTT(20), <1>1, <1>2, <1>3, <1>7, <1>9, <1>10, <2>1
  <2>3. QED
    BY <2>2 DEF h, HistoryRecordBytes
=============================================================================
