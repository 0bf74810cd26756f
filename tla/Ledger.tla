------------------------------- MODULE Ledger -------------------------------
(***************************************************************************)
(* The review history ledger of one workflow, and what it costs in the     *)
(* state file: the pure operators of internal/state/history.go, and of the *)
(* size-pressure eviction in internal/review/review.go.                    *)
(*                                                                         *)
(* A review text is abstracted to its length in bytes.  The text of a      *)
(* completed review is never empty (appserver refuses a turn without one), *)
(* so a length of 0 stands for an absent text.  Object ids and usage       *)
(* counters are left out: nothing here depends on them.                    *)
(***************************************************************************)
EXTENDS Integers, Sequences, FiniteSets

CONSTANTS
  MaxHistoryRecords,      \* records kept before the newest review
  MaxHistoryRecordBytes,  \* review text of one record
  MaxHistoryBytes,        \* all review text one prompt quotes
  MaxRound,               \* math.MaxInt: the last representable round
  RecordFraming,          \* bytes a record really costs beside its text
  RecordFramingBytes,     \* the code's upper bound on RecordFraming
  NoWorkflow              \* stands for a key the state file does not hold

ASSUME LedgerAssumption ==
  /\ MaxHistoryRecords \in Nat \ {0}
  /\ MaxHistoryRecordBytes \in Nat \ {0}
  /\ MaxHistoryBytes \in Nat
  /\ MaxHistoryRecordBytes <= MaxHistoryBytes
  /\ MaxRound \in Nat \ {0}
  /\ RecordFraming \in Nat \ {0}
  /\ RecordFramingBytes \in Nat
  /\ RecordFraming <= RecordFramingBytes

-----------------------------------------------------------------------------
(* One completed earlier round.                                            *)

HistoryRecord == [round : Nat, review : Nat, omitted : BOOLEAN]

(* What a prompt quotes of a verdict: a text over the bound is never       *)
(* truncated, it is replaced by a placeholder that quotes nothing.         *)
InjectedBytes(review) == IF review > MaxHistoryRecordBytes THEN 0 ELSE review

NewHistoryRecord(round, review) ==
  [round |-> round, review |-> InjectedBytes(review),
   omitted |-> review > MaxHistoryRecordBytes]

(* The quoted text as a set of byte positions, so that its length is a     *)
(* cardinality and a part of a history quotes a subset.                    *)
QuotedBytes(history) ==
  UNION {{i} \X (1 .. history[i].review) : i \in DOMAIN history}

HistoryBytes(history) == Cardinality(QuotedBytes(history))

(* history without its k oldest records.                                   *)
DropOldest(history, k) == SubSeq(history, k + 1, Len(history))

FitsRecordsOnly(history, newest) ==
  /\ Len(history) <= MaxHistoryRecords
  /\ HistoryBytes(history) <= MaxHistoryBytes

Fits(history, newest) ==
  /\ Len(history) <= MaxHistoryRecords
  /\ HistoryBytes(history) + newest <= MaxHistoryBytes

(* The loop drops the oldest record until what is left fits, so it stops   *)
(* at the least number of dropped records that does.                       *)
EvictedCount(history, newest) ==
  CHOOSE k \in 0 .. Len(history) :
    /\ Fits(DropOldest(history, k), newest)
    /\ \A j \in 0 .. (k - 1) : ~ Fits(DropOldest(history, j), newest)

RetainHistory(history, previous, newestReview) ==
  LET out == Append(history, previous)
  IN  DropOldest(out, EvictedCount(out, InjectedBytes(newestReview)))

-----------------------------------------------------------------------------
(* A workflow's record: what replay compares, and the ledger.  The commit, *)
(* base and notes of a round are one value, the request hash; the warnings *)
(* belong to the review they came with.                                    *)

SameReplayFields(w, o) ==
  /\ w.thread = o.thread
  /\ w.hash = o.hash
  /\ w.round = o.round
  /\ w.review = o.review

Incomplete(w) == w.review = 0 \/ w.round < 1

InvalidRecord(w, i) ==
  LET r    == w.history[i]
      want == w.round - Len(w.history) + i - 1
  IN  \/ r.round # want
      \/ want < 1
      \/ (r.review # 0) = r.omitted
      \/ r.review > MaxHistoryRecordBytes

InvalidHistory(w) ==
  \/ Len(w.history) > MaxHistoryRecords
  \/ \E i \in DOMAIN w.history : InvalidRecord(w, i)
  \/ HistoryBytes(w.history) + InjectedBytes(w.review) > MaxHistoryBytes

(* What loading refuses to build a further round on.                       *)
Unusable(w) == Incomplete(w) \/ InvalidHistory(w) \/ w.round >= MaxRound

-----------------------------------------------------------------------------
(* Size pressure.  The encoded file costs 1 and the review text for each   *)
(* workflow, and RecordFraming and the quoted text for each record.        *)

Present(st) == {w \in DOMAIN st : st[w] # NoWorkflow}

BytesOf(w) ==
       ({"entry"} \X (0 .. w.review))
  \cup ({"quoted"} \X QuotedBytes(w.history))
  \cup ({"framing"} \X ((DOMAIN w.history) \X (1 .. RecordFraming)))

EncodedBytes(st) ==
  Cardinality(UNION {{w} \X BytesOf(st[w]) : w \in Present(st)})

(* An upper bound on what removing a record frees.                         *)
HistoryRecordBytesUnder(r) == r.review

HistoryRecordBytes(r) == r.review + RecordFramingBytes

(* The bytes a workflow's history is estimated to hold: the heap's order.  *)
CandidateBytes(w) ==
  HistoryBytes(w.history) + Len(w.history) * RecordFramingBytes

CandidatesKeepingOne(st) == {w \in Present(st) : Len(st[w].history) > 1}

Candidates(st) == {w \in Present(st) : st[w].history # << >>}

(* The candidate with the most history bytes, ties by key: a set of one,   *)
(* or of none when no history is left.                                     *)
Largest(st) ==
  {w \in Candidates(st) : \A v \in Candidates(st) \ {w} :
     \/ CandidateBytes(st[w]) > CandidateBytes(st[v])
     \/ CandidateBytes(st[w]) = CandidateBytes(st[v]) /\ w < v}
=============================================================================
