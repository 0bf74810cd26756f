-------------------------- MODULE ThreadSetupProofs ---------------------------
(***************************************************************************)
(* Proofs about ThreadSetup, for any number of human acts, requests of the *)
(* child and warnings.                                                     *)
(***************************************************************************)
EXTENDS ThreadSetup, SequenceTheorems, FiniteSetTheorems, NaturalsInduction, WellFoundedInduction, TLAPS

-----------------------------------------------------------------------------
(* The warnings.                                                           *)

Notices == [list : Seq(Entries), bytes : 0 .. MaxWarningBytes, omitted : Nat]

(* What Counterpoint and the child raise is a warning.                     *)
LEMMA WarningType ==
  ASSUME NEW about \in Kinds, NEW n \in Nat
  PROVE  Warning(about, n) \in Entries
BY DEF Warning, Entries

(* recordWarning stays within the bound on bytes.                          *)
LEMMA RecordWarningType ==
  ASSUME NEW h \in Notices, NEW w \in Entries
  PROVE  RecordWarning(h, w) \in Notices
<1>1. w.size \in Nat /\ h.bytes \in 0 .. MaxWarningBytes /\ h.omitted \in Nat /\ h.list \in Seq(Entries)
  BY DEF Notices, Entries
<1>2. Append(h.list, w) \in Seq(Entries)
  BY <1>1, AppendProperties
<1>3. CASE Len(h.list) >= MaxWarnings \/ h.bytes + w.size > MaxWarningBytes
  BY <1>1, <1>3 DEF RecordWarning, Notices
<1>4. CASE ~ (Len(h.list) >= MaxWarnings \/ h.bytes + w.size > MaxWarningBytes)
  <2>1. h.bytes + w.size \in 0 .. MaxWarningBytes
    BY <1>1, <1>4, WarningsAssumption, LenProperties
  <2>2. QED
    BY <1>1, <1>2, <1>4, <2>1 DEF RecordWarning, Notices
<1>5. QED
  BY <1>3, <1>4

(* takeWarnings returns warnings.                                          *)
LEMMA TakeWarningsType ==
  ASSUME NEW h \in Notices
  PROVE  TakeWarnings(h) \in Seq(Entries)
<1>1. h.omitted \in Nat /\ h.list \in Seq(Entries)
  BY DEF Notices
<1>2. Marker(h.omitted) \in Entries
  BY <1>1, WarningsAssumption DEF Marker, Entries, Kinds
<1>3. Append(h.list, Marker(h.omitted)) \in Seq(Entries)
  BY <1>1, <1>2, AppendProperties
<1>4. QED
  BY <1>1, <1>3 DEF TakeWarnings

Told == held.omitted > 0 \/ \E w \in ToSet(held.list) : w.about = "unarchived"

(* A notice of the unarchive that was given stays given, and the bounds    *)
(* swallow one only by counting it.                                        *)
LEMMA ToldByRaising ==
  ASSUME held \in Notices, NEW w \in Entries, Raise(w)
  PROVE  /\ Told => Told'
         /\ w.about = "unarchived" => Told'
<1>1. held.omitted \in Nat /\ held.list \in Seq(Entries)
  BY DEF Notices
<1>2. CASE held' = [held EXCEPT !.omitted = @ + 1]
  BY <1>1, <1>2 DEF Told, Notices
<1>3. CASE held' = [held EXCEPT !.list = Append(@, w), !.bytes = @ + w.size]
  <2>1. held'.list = Append(held.list, w) /\ held'.omitted = held.omitted
    BY <1>3 DEF Notices
  <2>2. /\ Append(held.list, w) \in Seq(Entries)
        /\ Len(Append(held.list, w)) = Len(held.list) + 1
        /\ \A i \in 1 .. Len(held.list) : Append(held.list, w)[i] = held.list[i]
        /\ Append(held.list, w)[Len(held.list) + 1] = w
    BY <1>1, AppendProperties
  <2>3. /\ DOMAIN held.list = 1 .. Len(held.list) /\ Len(held.list) \in Nat
        /\ DOMAIN Append(held.list, w) = 1 .. Len(held.list) + 1
    BY <1>1, <2>2, LenProperties
  <2>4. ToSet(held'.list) = ToSet(held.list) \cup {w}
    BY <2>1, <2>2, <2>3 DEF ToSet
  <2>5. QED
    BY <2>1, <2>4 DEF Told
<1>4. QED
  BY <1>2, <1>3 DEF Raise, RecordWarning

-----------------------------------------------------------------------------
(* Types.                                                                  *)

(* A call starts well-typed.                                               *)
LEMMA TypeInit == Init => TypeOK
<1> SUFFICES ASSUME Init PROVE TypeOK
  OBVIOUS
<1>0. MaxHuman \in Nat /\ MaxAsks \in Nat /\ MaxWarningBytes \in Nat
  BY WarningsAssumption, SetupAssumption
<1>1. WarningsTypeOK
  <2>1. held \in [list : Seq(Entries), bytes : 0 .. MaxWarningBytes, omitted : Nat]
    BY <1>0 DEF Init, NoWarnings
  <2>2. modified \in BOOLEAN
    BY Zenon DEF Init
  <2>3. QED
    BY <1>0, <2>1, <2>2 DEF Init, WarningsTypeOK
<1>2. ServerTypeOK
  <2>1. unarchived \in BOOLEAN
    BY Zenon DEF Init
  <2>2. QED
    BY <1>0, <2>1 DEF Init, ServerTypeOK
<1>3. CallTypeOK
  <2>1. known \in BOOLEAN /\ build \in BOOLEAN /\ live \in BOOLEAN /\ up \in BOOLEAN
    BY Zenon DEF Init
  <2>2. QED
    BY <2>1 DEF Init, CallTypeOK, Errors, CallSteps, Outcomes
<1>4. QED
  BY <1>1, <1>2, <1>3 DEF TypeOK

(* Every step keeps the types of what the app-server has.                  *)
LEMMA ServerTypeStep == ServerTypeOK /\ [Next]_vars => ServerTypeOK'
<1> SUFFICES ASSUME ServerTypeOK, [Next]_vars PROVE ServerTypeOK'
  OBVIOUS
<1> USE DEF ServerTypeOK, Requests, Answers, server, request, warnings
<1>1. CASE Handle
  <2>1. req' = "none" /\ ans' \in Answers /\ human' = human
    BY <1>1 DEF Handle
  <2>2. thread' \in {"none", "active", "archived", "deleted"} /\ writer' \in {"none", "app", "us"}
    BY <1>1 DEF Handle, Carry
  <2>3. unarchived' \in BOOLEAN
    BY <1>1 DEF Handle, Carry
  <2>4. QED
    BY <2>1, <2>2, <2>3
<1>2. CASE ServerAsks
  BY <1>2 DEF ServerAsks
<1>3. CASE Spawn
  BY <1>3 DEF Spawn
<1>4. CASE Initialize
  BY <1>4 DEF Initialize, Call
<1>5. CASE Initialized
  BY <1>5 DEF Initialized
<1>6. CASE HandshakeFails
  BY <1>6 DEF HandshakeFails
<1>7. CASE NotifyInitialized
  BY <1>7 DEF NotifyInitialized
<1>8. CASE StartThread
  BY <1>8 DEF StartThread, Call
<1>9. CASE Started
  BY <1>9 DEF Started
<1>10. CASE StartFails
  BY <1>10 DEF StartFails
<1>11. CASE SetThreadName
  BY <1>11 DEF SetThreadName, Call
<1>12. CASE Named
  BY <1>12 DEF Named
<1>13. CASE ResumeThread
  BY <1>13 DEF ResumeThread, Call
<1>14. CASE Resumed
  BY <1>14 DEF Resumed
<1>15. CASE UnarchiveThread
  BY <1>15 DEF UnarchiveThread, Call
<1>16. CASE UnarchiveReturns
  BY <1>16 DEF UnarchiveReturns
<1>17. CASE ResumeAgain
  BY <1>17 DEF ResumeAgain, Call
<1>18. CASE ResumedAgain
  BY <1>18 DEF ResumedAgain
<1>19. CASE TurnFails
  BY <1>19 DEF TurnFails
<1>20. CASE TurnCompletes
  BY <1>20 DEF TurnCompletes
<1>21. CASE CheckIntegrity
  BY <1>21 DEF CheckIntegrity
<1>22. CASE Close
  BY <1>22 DEF Close
<1>23. CASE ContextEnds
  BY <1>23 DEF ContextEnds
<1>24. CASE ConnectionEnds
  BY <1>24 DEF ConnectionEnds
<1>25. CASE Human
  <2>1. MaxHuman \in Nat
    BY SetupAssumption
  <2>2. human' \in 0 .. MaxHuman
    BY <1>25, <2>1 DEF Human
  <2>3. QED
    BY <1>25, <2>2 DEF Human
<1>26. CASE UNCHANGED vars
  BY <1>26 DEF vars
<1>27. QED
  BY <1>1, <1>2, <1>3, <1>4, <1>5, <1>6, <1>7, <1>8, <1>9, <1>10, <1>11, <1>12, <1>13,
     <1>14, <1>15, <1>16, <1>17, <1>18, <1>19, <1>20, <1>21, <1>22, <1>23, <1>24, <1>25,
     <1>26
  DEF Next

(* Every step keeps the types of the call's own variables.                 *)
LEMMA CallTypeStep == CallTypeOK /\ [Next]_vars => CallTypeOK'
<1> SUFFICES ASSUME CallTypeOK, [Next]_vars PROVE CallTypeOK'
  OBVIOUS
<1> USE DEF CallTypeOK, server, request, warnings
<1>1. CASE Handle
  BY <1>1 DEF Handle
<1>2. CASE ServerAsks
  BY <1>2 DEF ServerAsks
<1>3. CASE Spawn
  BY <1>3 DEF Spawn, SetupError, CallSteps, Outcomes, Errors
<1>4. CASE Initialize
  BY <1>4 DEF Initialize, Call, CallSteps, Outcomes, Errors
<1>5. CASE Initialized
  BY <1>5 DEF Initialized, Returns, CallErrors, SendErrors, CallSteps, Outcomes,
     Errors
<1>6. CASE HandshakeFails
  BY <1>6 DEF HandshakeFails, Returns, CallErrors, SendErrors, Ends, SetupError,
     CallSteps, Outcomes, Errors
<1>7. CASE NotifyInitialized
  BY <1>7 DEF NotifyInitialized, CallSteps, Outcomes, Errors
<1>8. CASE StartThread
  BY <1>8 DEF StartThread, Call, CallSteps, Outcomes, Errors
<1>9. CASE Started
  BY <1>9 DEF Started, Returns, CallErrors, SendErrors, CallSteps, Outcomes, Errors
<1>10. CASE StartFails
  BY <1>10 DEF StartFails, Returns, CallErrors, SendErrors, Ends, SetupError,
     CallSteps, Outcomes, Errors
<1>11. CASE SetThreadName
  BY <1>11 DEF SetThreadName, Call, CallSteps, Outcomes, Errors
<1>12. CASE Named
  BY <1>12 DEF Named, Returns, CallErrors, SendErrors, Ends, CallSteps, Outcomes,
     Errors
<1>13. CASE ResumeThread
  BY <1>13 DEF ResumeThread, Call, CallSteps, Outcomes, Errors
<1>14. CASE Resumed
  BY <1>14 DEF Resumed, Returns, CallErrors, SendErrors, Recovers, Ends,
     ResumeError, CallSteps, Outcomes, Errors
<1>15. CASE UnarchiveThread
  BY <1>15 DEF UnarchiveThread, Call, CallSteps, Outcomes, Errors
<1>16. CASE UnarchiveReturns
  BY <1>16 DEF UnarchiveReturns, Returns, CallErrors, SendErrors, Ends, ResumeError,
     Unarchived, CallSteps, Outcomes, Errors
<1>17. CASE ResumeAgain
  BY <1>17 DEF ResumeAgain, Call, CallSteps, Outcomes, Errors
<1>18. CASE ResumedAgain
  BY <1>18 DEF ResumedAgain, Returns, CallErrors, SendErrors, Ends, ResumeError,
     CallSteps, Outcomes, Errors
<1>19. CASE TurnFails
  BY <1>19 DEF TurnFails, Ends, CallSteps, Outcomes, Errors
<1>20. CASE TurnCompletes
  BY <1>20 DEF TurnCompletes, Ends, CallSteps, Outcomes, Errors
<1>21. CASE CheckIntegrity
  BY <1>21 DEF CheckIntegrity, Ends, CallSteps, Outcomes, Errors
<1>22. CASE Close
  BY <1>22 DEF Close, CallSteps, Outcomes, Errors
<1>23. CASE ContextEnds
  BY <1>23 DEF ContextEnds
<1>24. CASE ConnectionEnds
  BY <1>24 DEF ConnectionEnds
<1>25. CASE Human
  BY <1>25 DEF Human
<1>26. CASE UNCHANGED vars
  BY <1>26 DEF vars
<1>27. QED
  BY <1>1, <1>2, <1>3, <1>4, <1>5, <1>6, <1>7, <1>8, <1>9, <1>10, <1>11, <1>12, <1>13,
     <1>14, <1>15, <1>16, <1>17, <1>18, <1>19, <1>20, <1>21, <1>22, <1>23, <1>24, <1>25,
     <1>26
  DEF Next

(* Every step keeps the types of the warnings.                             *)
LEMMA WarningsTypeStep == WarningsTypeOK /\ [Next]_vars => WarningsTypeOK'
<1> SUFFICES ASSUME WarningsTypeOK, [Next]_vars PROVE WarningsTypeOK'
  OBVIOUS
<1> USE DEF WarningsTypeOK, warnings
<1>1. CASE Handle
  BY <1>1 DEF Handle
<1>2. CASE ServerAsks
  <2>1. PICK n \in Sizes : Raise(Warning("asked", n))
    BY <1>2 DEF ServerAsks
  <2>2. Warning("asked", n) \in Entries
    BY SetupAssumption, WarningType DEF Kinds
  <2>3. RecordWarning(held, Warning("asked", n)) \in Notices
    BY <2>2, RecordWarningType DEF Notices
  <2>4. raised' \in Seq(Entries)
    BY <2>1, <2>2, AppendProperties DEF Raise
  <2>5. asks' \in 0 .. MaxAsks
    <3>1. MaxAsks \in Nat
      BY SetupAssumption
    <3>2. asks \in 0 .. MaxAsks /\ asks < MaxAsks /\ asks' = asks + 1
      BY <1>2 DEF ServerAsks
    <3>3. QED
      BY <3>1, <3>2
  <2>6. QED
    BY <1>2, <2>1, <2>3, <2>4, <2>5 DEF ServerAsks, Raise, Notices
<1>3. CASE Spawn
  BY <1>3 DEF Spawn
<1>4. CASE Initialize
  BY <1>4 DEF Initialize, Call
<1>5. CASE Initialized
  BY <1>5 DEF Initialized
<1>6. CASE HandshakeFails
  BY <1>6 DEF HandshakeFails
<1>7. CASE NotifyInitialized
  BY <1>7 DEF NotifyInitialized
<1>8. CASE StartThread
  BY <1>8 DEF StartThread, Call
<1>9. CASE Started
  BY <1>9 DEF Started
<1>10. CASE StartFails
  BY <1>10 DEF StartFails
<1>11. CASE SetThreadName
  BY <1>11 DEF SetThreadName, Call
<1>12. CASE Named
  <2>1. Warning("name", OwnSize) \in Entries
    BY SetupAssumption, WarningType DEF Kinds
  <2>2. CASE UNCHANGED <<held, raised>>
    BY <1>12, <2>2 DEF Named
  <2>3. CASE Raise(Warning("name", OwnSize))
    BY <1>12, <2>1, <2>3, RecordWarningType, AppendProperties DEF Named, Raise, Notices
  <2>4. QED
    BY <1>12, <2>2, <2>3 DEF Named
<1>13. CASE ResumeThread
  BY <1>13 DEF ResumeThread, Call
<1>14. CASE Resumed
  BY <1>14 DEF Resumed
<1>15. CASE UnarchiveThread
  BY <1>15 DEF UnarchiveThread, Call
<1>16. CASE UnarchiveReturns
  <2>1. Warning("unarchived", OwnSize) \in Entries
    BY SetupAssumption, WarningType DEF Kinds
  <2>2. CASE UNCHANGED <<held, raised>>
    BY <1>16, <2>2 DEF UnarchiveReturns
  <2>3. CASE Raise(Warning("unarchived", OwnSize))
    BY <1>16, <2>1, <2>3, RecordWarningType, AppendProperties DEF UnarchiveReturns, Raise, Notices
  <2>4. QED
    BY <1>16, <2>2, <2>3 DEF UnarchiveReturns, Unarchived
<1>17. CASE ResumeAgain
  BY <1>17 DEF ResumeAgain, Call
<1>18. CASE ResumedAgain
  BY <1>18 DEF ResumedAgain
<1>19. CASE TurnFails
  BY <1>19 DEF TurnFails
<1>20. CASE TurnCompletes
  <2>1. NoWarnings \in Notices
    BY WarningsAssumption DEF NoWarnings, Notices
  <2>2. QED
    BY <1>20, <2>1, TakeWarningsType DEF TurnCompletes, Notices
<1>21. CASE CheckIntegrity
  <2>1. Warning("modified", OwnSize) \in Entries
    BY SetupAssumption, WarningType DEF Kinds
  <2>2. reported' \in Seq(Entries)
    BY <1>21, <2>1, AppendProperties DEF CheckIntegrity, AppendWarning
  <2>3. modified' \in BOOLEAN
    BY Zenon, <1>21 DEF CheckIntegrity
  <2>4. QED
    BY <1>21, <2>2, <2>3 DEF CheckIntegrity
<1>22. CASE Close
  BY <1>22 DEF Close
<1>23. CASE ContextEnds
  BY <1>23 DEF ContextEnds
<1>24. CASE ConnectionEnds
  BY <1>24 DEF ConnectionEnds
<1>25. CASE Human
  BY <1>25 DEF Human
<1>26. CASE UNCHANGED vars
  BY <1>26 DEF vars
<1>27. QED
  BY <1>1, <1>2, <1>3, <1>4, <1>5, <1>6, <1>7, <1>8, <1>9, <1>10, <1>11, <1>12, <1>13,
     <1>14, <1>15, <1>16, <1>17, <1>18, <1>19, <1>20, <1>21, <1>22, <1>23, <1>24, <1>25,
     <1>26
  DEF Next

-----------------------------------------------------------------------------
(* Whose thread it is.                                                     *)

(* The app-server works on the request the call waits for, or on none.     *)
Working ==
  \/ pc = "initializing" /\ req = "initialize"
  \/ pc = "starting" /\ req = "start"
  \/ pc = "naming" /\ req = "name"
  \/ pc \in {"resuming", "resumingAgain"} /\ req = "resume"
  \/ pc = "unarchiving" /\ req = "unarchive"

(* From the answer that gave this child the writer, to the turn, the call  *)
(* keeps it.                                                               *)
Ownership ==
  /\ req # "none" => up /\ (pc = "close" \/ Working)
  /\ writer = "us" => thread = "active"
  /\ pc \in {"starting", "resuming", "resumingAgain"} /\ ans \in {"ok", "mismatch"} => writer = "us"
  /\ pc \in {"name", "naming", "turn"} => writer = "us"

(* Each step of the call, the app-server and the human keeps this.         *)
LEMMA OwnershipStep == ServerTypeOK /\ Ownership /\ [Next]_vars => Ownership'
<1> SUFFICES ASSUME ServerTypeOK, Ownership, [Next]_vars PROVE Ownership'
  OBVIOUS
<1> USE DEF ServerTypeOK, Answers, Requests, Ownership, Working, server, request,
     warnings
<1>1. CASE Handle
  BY <1>1 DEF Handle, Refuses, Carry
<1>2. CASE ServerAsks
  BY <1>2 DEF ServerAsks
<1>3. CASE Spawn
  BY <1>3 DEF Spawn, SetupError
<1>4. CASE Initialize
  BY <1>4 DEF Initialize, Call
<1>5. CASE Initialized
  BY <1>5 DEF Initialized, Returns, CallErrors, SendErrors
<1>6. CASE HandshakeFails
  BY <1>6 DEF HandshakeFails, Returns, CallErrors, SendErrors, Ends, SetupError
<1>7. CASE NotifyInitialized
  BY <1>7 DEF NotifyInitialized
<1>8. CASE StartThread
  BY <1>8 DEF StartThread, Call
<1>9. CASE Started
  BY <1>9 DEF Started, Returns, CallErrors, SendErrors
<1>10. CASE StartFails
  BY <1>10 DEF StartFails, Returns, CallErrors, SendErrors, Ends, SetupError
<1>11. CASE SetThreadName
  BY <1>11 DEF SetThreadName, Call
<1>12. CASE Named
  <2>1. PICK e \in Errors : Returns("name", "naming", e) /\ (pc' = "close" \/ (pc' = "turn" /\ (live \/ e = "none")))
    BY <1>12 DEF Named, Ends
  <2>2. UNCHANGED server
    BY <1>12 DEF Named
  <2>3. pc \in {"name", "naming"} /\ up' = up
    BY <1>12 DEF Named, Returns
  <2>4. CASE pc' = "close"
    BY <2>2, <2>3, <2>4
  <2>5. CASE pc' = "turn"
    <3>1. req = "none"
      BY <2>1, <2>5 DEF Returns, CallErrors, SendErrors, Errors
    <3>2. QED
      BY <2>2, <2>3, <2>5, <3>1
  <2>6. QED
    BY <2>1, <2>4, <2>5
<1>13. CASE ResumeThread
  BY <1>13 DEF ResumeThread, Call
<1>14. CASE Resumed
  BY <1>14 DEF Resumed, Returns, CallErrors, SendErrors, Recovers, Ends, ResumeError
<1>15. CASE UnarchiveThread
  BY <1>15 DEF UnarchiveThread, Call
<1>16. CASE UnarchiveReturns
  BY <1>16 DEF UnarchiveReturns, Returns, CallErrors, SendErrors, Ends, ResumeError,
     Unarchived
<1>17. CASE ResumeAgain
  BY <1>17 DEF ResumeAgain, Call
<1>18. CASE ResumedAgain
  BY <1>18 DEF ResumedAgain, Returns, CallErrors, SendErrors, Ends, ResumeError
<1>19. CASE TurnFails
  BY <1>19 DEF TurnFails, Ends
<1>20. CASE TurnCompletes
  BY <1>20 DEF TurnCompletes, Ends
<1>21. CASE CheckIntegrity
  BY <1>21 DEF CheckIntegrity, Ends
<1>22. CASE Close
  BY <1>22 DEF Close
<1>23. CASE ContextEnds
  BY <1>23 DEF ContextEnds, InSetup
<1>24. CASE ConnectionEnds
  BY <1>24 DEF ConnectionEnds, InSetup
<1>25. CASE Human
  BY <1>25 DEF Human, InSetup
<1>26. CASE UNCHANGED vars
  BY <1>26 DEF vars
<1>27. QED
  BY <1>1, <1>2, <1>3, <1>4, <1>5, <1>6, <1>7, <1>8, <1>9, <1>10, <1>11, <1>12, <1>13,
     <1>14, <1>15, <1>16, <1>17, <1>18, <1>19, <1>20, <1>21, <1>22, <1>23, <1>24, <1>25,
     <1>26
  DEF Next

-----------------------------------------------------------------------------
(* What the human is told.                                                 *)

(* Nothing but the call's own request takes the thread out of the archive  *)
(* in its name, and the step after its answer warns of it.                 *)
Telling ==
  /\ unarchived => pc \in {"unarchiving", "again", "resumingAgain", "turn", "integrity", "close", "closed"}
  /\ unarchived /\ pc = "unarchiving" => ans \in {"ok", "mismatch"}
  /\ unarchived /\ pc \in {"again", "resumingAgain", "turn"} => Told

(* Each step keeps this.                                                   *)
LEMMA TellingStep == TypeOK /\ Ownership /\ Telling /\ [Next]_vars => Telling'
<1> SUFFICES ASSUME TypeOK, Ownership, Telling, [Next]_vars PROVE Telling'
  OBVIOUS
<1> USE DEF TypeOK, ServerTypeOK, Answers, Requests, Ownership, Telling, Working,
     server, request, warnings
<1>0. (Told => Told') \/ pc' \in {"integrity", "close"}
  <2>1. CASE UNCHANGED held
    BY <2>1 DEF Told
  <2>2. CASE \E w \in Entries : Raise(w)
    BY <2>2, ToldByRaising DEF TypeOK, WarningsTypeOK, Notices
  <2>3. \A n \in Sizes \cup {OwnSize} : \A about \in Kinds : Warning(about, n) \in Entries
    BY SetupAssumption, WarningType
  <2>4. ServerAsks => \E w \in Entries : Raise(w)
    BY <2>3 DEF ServerAsks, Kinds
  <2>5. Named => UNCHANGED held \/ \E w \in Entries : Raise(w)
    BY <2>3 DEF Named, Kinds
  <2>6. UnarchiveReturns => UNCHANGED held \/ \E w \in Entries : Raise(w)
    BY <2>3 DEF UnarchiveReturns, Unarchived, Kinds
  <2>7. \/ UNCHANGED held \/ ServerAsks \/ Named \/ UnarchiveReturns \/ TurnCompletes
    BY DEF Next, vars, Handle, Carry, Spawn, Initialize, Initialized, HandshakeFails,
       NotifyInitialized, StartThread, Started, StartFails, SetThreadName, ResumeThread, Resumed,
       UnarchiveThread, ResumeAgain, ResumedAgain, TurnFails, CheckIntegrity, Close, ContextEnds,
       ConnectionEnds, Human, Call
  <2>8. TurnCompletes => pc' \in {"integrity", "close"}
    BY DEF TurnCompletes, Ends
  <2>9. QED
    BY <2>1, <2>2, <2>4, <2>5, <2>6, <2>7, <2>8
<1>1. CASE Handle
  BY <1>1, <1>0 DEF Handle, Refuses, Carry
<1>2. CASE ServerAsks
  BY <1>2, <1>0 DEF ServerAsks
<1>3. CASE Spawn
  BY <1>3, <1>0 DEF Spawn, SetupError
<1>4. CASE Initialize
  BY <1>4, <1>0 DEF Initialize, Call
<1>5. CASE Initialized
  BY <1>5, <1>0 DEF Initialized, Returns, CallErrors, SendErrors
<1>6. CASE HandshakeFails
  BY <1>6, <1>0 DEF HandshakeFails, Returns, CallErrors, SendErrors, Ends,
     SetupError
<1>7. CASE NotifyInitialized
  BY <1>7, <1>0 DEF NotifyInitialized
<1>8. CASE StartThread
  BY <1>8, <1>0 DEF StartThread, Call
<1>9. CASE Started
  BY <1>9, <1>0 DEF Started, Returns, CallErrors, SendErrors
<1>10. CASE StartFails
  BY <1>10, <1>0 DEF StartFails, Returns, CallErrors, SendErrors, Ends, SetupError
<1>11. CASE SetThreadName
  BY <1>11, <1>0 DEF SetThreadName, Call
<1>12. CASE Named
  BY <1>12, <1>0 DEF Named, Returns, CallErrors, SendErrors, Ends
<1>13. CASE ResumeThread
  BY <1>13, <1>0 DEF ResumeThread, Call
<1>14. CASE Resumed
  <2>1. PICK e \in Errors :
          /\ Returns("resume", "resuming", e)
          /\ CASE e = "none" -> pc' = "turn" /\ outcome' = "ready"
               [] Recovers(e) -> pc' = "unarchive" /\ UNCHANGED outcome
               [] OTHER -> Ends(ResumeError(e))
    BY <1>14 DEF Resumed
  <2>2. UNCHANGED <<server, request, warnings, live, up, human>>
    BY <1>14 DEF Resumed
  <2>3. CASE e = "none"
    BY <2>1, <2>2, <2>3, <1>0 DEF Returns, CallErrors, SendErrors, Recovers
  <2>4. CASE e # "none" /\ Recovers(e)
    BY <2>1, <2>2, <2>4, <1>0 DEF Returns, CallErrors, SendErrors, Recovers
  <2>5. CASE e # "none" /\ ~ Recovers(e)
    <3>1. Ends(ResumeError(e))
      BY <2>1, <2>5
    <3>2. QED
      BY <2>1, <2>2, <2>5, <3>1, <1>0 DEF Returns, CallErrors, SendErrors, Recovers, Ends, ResumeError
  <2>6. QED
    BY <2>3, <2>4, <2>5
<1>15. CASE UnarchiveThread
  BY <1>15, <1>0 DEF UnarchiveThread, Call
<1>16. CASE UnarchiveReturns
  <2>1. Warning("unarchived", OwnSize) \in Entries /\ Warning("unarchived", OwnSize).about = "unarchived"
    BY SetupAssumption, WarningType DEF Kinds, Warning
  <2>2. Unarchived => Told'
    BY <2>1, ToldByRaising DEF Unarchived, WarningsTypeOK, Notices
  <2>3. QED
    BY <1>16, <1>0, <2>2 DEF UnarchiveReturns, Returns, CallErrors, SendErrors, Ends, ResumeError, Unarchived
<1>17. CASE ResumeAgain
  BY <1>17, <1>0 DEF ResumeAgain, Call
<1>18. CASE ResumedAgain
  <2>1. PICK e \in Errors :
          /\ Returns("again", "resumingAgain", e)
          /\ IF e = "none" THEN pc' = "turn" /\ outcome' = "ready" ELSE Ends(ResumeError(e))
    BY <1>18 DEF ResumedAgain
  <2>2. UNCHANGED <<server, request, warnings, live, up, human>>
    BY <1>18 DEF ResumedAgain
  <2>3. CASE e = "none"
    BY <2>1, <2>2, <2>3, <1>0 DEF Returns, CallErrors, SendErrors
  <2>4. CASE e # "none"
    BY <2>1, <2>2, <2>4, <1>0 DEF Returns, CallErrors, SendErrors, Ends, ResumeError
  <2>5. QED
    BY <2>3, <2>4
<1>19. CASE TurnFails
  BY <1>19, <1>0 DEF TurnFails, Ends
<1>20. CASE TurnCompletes
  BY <1>20, <1>0 DEF TurnCompletes, Ends
<1>21. CASE CheckIntegrity
  BY <1>21, <1>0 DEF CheckIntegrity, Ends
<1>22. CASE Close
  BY <1>22, <1>0 DEF Close
<1>23. CASE ContextEnds
  BY <1>23, <1>0 DEF ContextEnds, InSetup
<1>24. CASE ConnectionEnds
  BY <1>24, <1>0 DEF ConnectionEnds, InSetup
<1>25. CASE Human
  BY <1>25, <1>0 DEF Human, InSetup
<1>26. CASE UNCHANGED vars
  BY <1>26, <1>0 DEF vars
<1>27. QED
  BY <1>1, <1>2, <1>3, <1>4, <1>5, <1>6, <1>7, <1>8, <1>9, <1>10, <1>11, <1>12, <1>13,
     <1>14, <1>15, <1>16, <1>17, <1>18, <1>19, <1>20, <1>21, <1>22, <1>23, <1>24, <1>25,
     <1>26
  DEF Next

-----------------------------------------------------------------------------
(* The handoff.                                                            *)

Gone == thread = "deleted" \/ writer = "app"

(* While the human leaves the thread alone, a refusal says what the thread *)
(* was, and the thread this call took out of the archive can be resumed.   *)
Handoff ==
  /\ known => thread # "none"
  /\ pc \in {"resume", "resuming", "unarchive", "unarchiving", "again", "resumingAgain"} => known
  /\ human = 0 =>
       /\ writer = "app" => thread = "active"
       /\ pc = "resuming" /\ ans = "refused" => thread # "active" \/ writer = "app"
       /\ pc \in {"unarchive", "unarchiving"} /\ ~ unarchived => thread # "active" \/ writer = "app"
       /\ pc = "unarchiving" /\ ans = "refused" => Gone
       /\ pc = "unarchiving" /\ ans = "ok" => thread = "active" /\ writer # "app"
       /\ pc \in {"again", "resumingAgain"} => thread = "active" /\ writer # "app"
       /\ pc = "resumingAgain" => ans # "refused"
       /\ outcome = "unavailable" /\ up => pc \in {"close", "closed"} /\ req = "none" /\ ans \in {"refused", "mismatch"}
       /\ outcome = "unavailable" /\ up /\ ans = "refused" => Gone

(* One more act of the human is one.                                       *)
LEMMA CountedOnce ==
  ASSUME NEW bound \in Nat, NEW n \in 0 .. bound
  PROVE  n + 1 # 0
OBVIOUS

(* Each step keeps this.                                                   *)
LEMMA HandoffStep == TypeOK /\ Ownership /\ Telling /\ Handoff /\ [Next]_vars => Handoff'
<1> SUFFICES ASSUME TypeOK, Ownership, Telling, Handoff, [Next]_vars PROVE Handoff'
  OBVIOUS
<1> USE DEF Telling, TypeOK, ServerTypeOK, CallTypeOK, Requests, Answers, Errors,
     Ownership, Handoff, Working, Gone, server, request, warnings
<1>1. CASE Handle
  <2>1. pc' = pc /\ UNCHANGED <<request, live, up, outcome, human>> /\ req # "none" /\ req' = "none"
    BY <1>1 DEF Handle
  <2>2. CASE Refuses(req) \/ req \in {"initialize", "start", "name"}
    <3>1. CASE ans' = "refused" /\ UNCHANGED <<thread, writer, unarchived>>
      <4>1. CASE req \in {"initialize", "start", "name"}
        BY <2>1, <3>1, <4>1
      <4>2. CASE req = "resume" /\ (thread # "active" \/ writer = "app")
        BY <2>1, <3>1, <4>2
      <4>3. CASE req = "unarchive" /\ thread # "archived"
        BY <2>1, <3>1, <4>3
      <4>4. QED
        BY <2>1, <2>2, <4>1, <4>2, <4>3 DEF Refuses
    <3>2. CASE ~ Refuses(req) /\ Carry(req) /\ ans' \in {"ok", "mismatch"}
      BY <2>1, <2>2, <3>2 DEF Refuses, Carry
    <3>3. QED
      BY <1>1, <3>1, <3>2 DEF Handle
  <2>3. CASE ~ (Refuses(req) \/ req \in {"initialize", "start", "name"})
    <3>1. Carry(req) /\ ans' \in {"ok", "mismatch"}
      BY <1>1, <2>3 DEF Handle
    <3>2. QED
      BY <2>1, <2>3, <3>1 DEF Refuses, Carry
  <2>4. QED
    BY <2>2, <2>3
<1>2. CASE ServerAsks
  BY <1>2 DEF ServerAsks
<1>3. CASE Spawn
  BY <1>3 DEF Spawn, SetupError
<1>4. CASE Initialize
  BY <1>4 DEF Initialize, Call
<1>5. CASE Initialized
  BY <1>5 DEF Initialized, Returns, CallErrors, SendErrors
<1>6. CASE HandshakeFails
  BY <1>6 DEF HandshakeFails, Returns, CallErrors, SendErrors, Ends, SetupError
<1>7. CASE NotifyInitialized
  BY <1>7 DEF NotifyInitialized
<1>8. CASE StartThread
  BY <1>8 DEF StartThread, Call
<1>9. CASE Started
  BY <1>9 DEF Started, Returns, CallErrors, SendErrors
<1>10. CASE StartFails
  BY <1>10 DEF StartFails, Returns, CallErrors, SendErrors, Ends, SetupError
<1>11. CASE SetThreadName
  BY <1>11 DEF SetThreadName, Call
<1>12. CASE Named
  BY <1>12 DEF Named, Returns, CallErrors, SendErrors, Ends
<1>13. CASE ResumeThread
  BY <1>13 DEF ResumeThread, Call
<1>14. CASE Resumed
  <2>1. PICK e \in Errors :
          /\ Returns("resume", "resuming", e)
          /\ CASE e = "none" -> pc' = "turn" /\ outcome' = "ready"
               [] Recovers(e) -> pc' = "unarchive" /\ UNCHANGED outcome
               [] OTHER -> Ends(ResumeError(e))
    BY <1>14 DEF Resumed
  <2>2. UNCHANGED <<server, request, warnings, live, up, human>>
    BY <1>14 DEF Resumed
  <2>3. CASE e = "none"
    BY <2>1, <2>2, <2>3 DEF Returns, CallErrors, SendErrors, Recovers
  <2>4. CASE e # "none" /\ Recovers(e)
    BY <2>1, <2>2, <2>4 DEF Returns, CallErrors, SendErrors, Recovers
  <2>5. CASE e # "none" /\ ~ Recovers(e)
    <3>1. Ends(ResumeError(e))
      BY <2>1, <2>5
    <3>2. QED
      BY <2>1, <2>2, <2>5, <3>1 DEF Returns, CallErrors, SendErrors, Recovers, Ends, ResumeError
  <2>6. QED
    BY <2>3, <2>4, <2>5
<1>15. CASE UnarchiveThread
  BY <1>15 DEF UnarchiveThread, Call
<1>16. CASE UnarchiveReturns
  BY <1>16 DEF UnarchiveReturns, Returns, CallErrors, SendErrors, Ends, ResumeError,
     Unarchived
<1>17. CASE ResumeAgain
  BY <1>17 DEF ResumeAgain, Call
<1>18. CASE ResumedAgain
  <2>1. PICK e \in Errors :
          /\ Returns("again", "resumingAgain", e)
          /\ IF e = "none" THEN pc' = "turn" /\ outcome' = "ready" ELSE Ends(ResumeError(e))
    BY <1>18 DEF ResumedAgain
  <2>2. UNCHANGED <<server, request, warnings, live, up, human>>
    BY <1>18 DEF ResumedAgain
  <2>3. CASE e = "none"
    BY <2>1, <2>2, <2>3 DEF Returns, CallErrors, SendErrors
  <2>4. CASE e # "none"
    BY <2>1, <2>2, <2>4 DEF Returns, CallErrors, SendErrors, Ends, ResumeError
  <2>5. QED
    BY <2>3, <2>4
<1>19. CASE TurnFails
  BY <1>19 DEF TurnFails, Ends
<1>20. CASE TurnCompletes
  BY <1>20 DEF TurnCompletes, Ends
<1>21. CASE CheckIntegrity
  BY <1>21 DEF CheckIntegrity, Ends
<1>22. CASE Close
  BY <1>22 DEF Close
<1>23. CASE ContextEnds
  BY <1>23 DEF ContextEnds, InSetup
<1>24. CASE ConnectionEnds
  BY <1>24 DEF ConnectionEnds, InSetup
<1>25. CASE Human
  <2>1. human' # 0
    <3>1. MaxHuman \in Nat
      BY SetupAssumption
    <3>2. human \in 0 .. MaxHuman /\ human' = human + 1
      BY <1>25 DEF Human
    <3>3. QED
      BY <3>1, <3>2, CountedOnce
  <2>2. thread' # "none" /\ pc' = pc /\ known' = known /\ known
    BY <1>25 DEF Human
  <2>3. QED
    BY <2>1, <2>2
<1>26. CASE UNCHANGED vars
  BY <1>26 DEF vars
<1>27. QED
  BY <1>1, <1>2, <1>3, <1>4, <1>5, <1>6, <1>7, <1>8, <1>9, <1>10, <1>11, <1>12, <1>13,
     <1>14, <1>15, <1>16, <1>17, <1>18, <1>19, <1>20, <1>21, <1>22, <1>23, <1>24, <1>25,
     <1>26
  DEF Next

-----------------------------------------------------------------------------
(* The bytes of a list of warnings.                                        *)

(* f holds the bytes of every beginning of list, as TotalBytes sums them.  *)
Totals(list, f) ==
  f = [n \in 0 .. Len(list) |-> IF n = 0 THEN 0 ELSE f[n - 1] + list[n].size]

(* Induction, as a fact about a set of numbers.                            *)
LEMMA EveryNatural ==
  ASSUME NEW T, T \subseteq Nat, 0 \in T, \A n \in T : n + 1 \in T
  PROVE  \A n \in Nat : n \in T
<1> SUFFICES ASSUME Nat \ T # {} PROVE FALSE
  OBVIOUS
<1>1. PICK k \in Nat \ T : \A j \in Nat \ T : ~ (j < k)
  <2>1. Nat \ T \subseteq Nat
    OBVIOUS
  <2>2. \E k \in Nat \ T : \A j \in Nat \ T : ~ (<<j, k>> \in OpToRel(<, Nat))
    BY <2>1, NatLessThanWellFounded, WFMin
  <2>3. QED
    BY <2>2 DEF OpToRel
<1>2. k # 0 /\ k - 1 \in Nat /\ k - 1 < k
  BY <1>1
<1>3. k - 1 \in T
  BY <1>1, <1>2
<1>4. (k - 1) + 1 \in T
  BY <1>3
<1>5. QED
  BY <1>1, <1>2, <1>4

(* The sizes of the entries.                                               *)
LEMMA EntrySizes ==
  ASSUME NEW list \in Seq(Entries)
  PROVE  Len(list) \in Nat /\ \A n \in 1 .. Len(list) : list[n].size \in Nat
<1>1. Len(list) \in Nat /\ \A n \in 1 .. Len(list) : list[n] \in Entries
  BY LenProperties
<1>2. QED
  BY <1>1 DEF Entries

(* There are such sums.                                                    *)
LEMMA TotalsExist ==
  ASSUME NEW list \in Seq(Entries)
  PROVE  \E f : Totals(list, f)
<1> DEFINE Sums(f, m) == f[0] = 0 /\ \A i \in 1 .. m : f[i] = f[i - 1] + list[i].size
<1> DEFINE Summed(m) == \E f \in [0 .. m -> Nat] : Sums(f, m)
<1> DEFINE T == {m \in Nat : m <= Len(list) => Summed(m)}
<1>1. Len(list) \in Nat /\ \A n \in 1 .. Len(list) : list[n].size \in Nat
  BY EntrySizes
<1>2. 0 \in T
  <2>1. [i \in 0 .. 0 |-> 0] \in [0 .. 0 -> Nat] /\ Sums([i \in 0 .. 0 |-> 0], 0)
    OBVIOUS
  <2>2. QED
    BY <2>1
<1>3. ASSUME NEW m \in T PROVE m + 1 \in T
  <2> SUFFICES ASSUME m + 1 <= Len(list) PROVE Summed(m + 1)
    <3> HIDE DEF Summed
    <3>1. QED
      BY <1>3
  <2>1. m \in Nat /\ m <= Len(list) /\ m + 1 \in 1 .. Len(list)
    BY <1>1, <1>3
  <2>2. PICK f \in [0 .. m -> Nat] : Sums(f, m)
    BY <1>3, <2>1
  <2> DEFINE g == [i \in 0 .. m + 1 |-> IF i = m + 1 THEN f[m] + list[m + 1].size ELSE f[i]]
  <2>3. f[m] + list[m + 1].size \in Nat
    BY <1>1, <2>1, <2>2
  <2>4. g \in [0 .. m + 1 -> Nat]
    BY <2>1, <2>2, <2>3
  <2>5. g[0] = 0 /\ g[m + 1] = g[m] + list[m + 1].size
    BY <2>1, <2>2
  <2>6. \A i \in 1 .. m : g[i] = g[i - 1] + list[i].size
    BY <2>1, <2>2
  <2> HIDE DEF g
  <2>7. \A i \in 1 .. m + 1 : i \in 1 .. m \/ i = m + 1
    BY <2>1
  <2>8. m + 1 - 1 = m
    BY <2>1
  <2>9. Sums(g, m + 1)
    BY <2>5, <2>6, <2>7, <2>8
  <2>10. QED
    BY <2>4, <2>9
<1>4. Len(list) \in T
  <2> HIDE DEF T
  <2>1. T \subseteq Nat
    BY DEF T
  <2>2. QED
    BY <1>1, <1>2, <1>3, <2>1, EveryNatural
<1>5. PICK f \in [0 .. Len(list) -> Nat] : Sums(f, Len(list))
  BY <1>1, <1>4
<1>6. f = [n \in 0 .. Len(list) |-> f[n]]
  BY <1>5
<1>7. \A n \in 0 .. Len(list) : f[n] = IF n = 0 THEN 0 ELSE f[n - 1] + list[n].size
  BY <1>1, <1>5
<1>8. Totals(list, f)
  <2>1. f = [n \in 0 .. Len(list) |-> IF n = 0 THEN 0 ELSE f[n - 1] + list[n].size]
    BY <1>6, <1>7
  <2>2. QED
    BY <2>1 DEF Totals
<1>9. QED
  BY <1>8

(* The sums are numbers, and depend on nothing behind them.                *)
LEMMA TotalsUnique ==
  ASSUME NEW list \in Seq(Entries), NEW more \in Seq(Entries), NEW f, NEW g,
         Totals(list, f), Totals(more, g), Len(list) <= Len(more),
         \A i \in 1 .. Len(list) : list[i] = more[i]
  PROVE  \A n \in 0 .. Len(list) : f[n] = g[n] /\ f[n] \in Nat
<1> DEFINE T == {n \in Nat : n <= Len(list) => f[n] = g[n] /\ f[n] \in Nat}
<1>1. /\ Len(list) \in Nat /\ Len(more) \in Nat
      /\ \A n \in 1 .. Len(list) : list[n].size \in Nat
  BY EntrySizes
<1>2. ASSUME NEW n \in 0 .. Len(list)
      PROVE  /\ f[n] = IF n = 0 THEN 0 ELSE f[n - 1] + list[n].size
             /\ g[n] = IF n = 0 THEN 0 ELSE g[n - 1] + more[n].size
  <2>1. f[n] = IF n = 0 THEN 0 ELSE f[n - 1] + list[n].size
    BY Zenon DEF Totals
  <2>2. n \in 0 .. Len(more)
    BY <1>1
  <2>3. g[n] = IF n = 0 THEN 0 ELSE g[n - 1] + more[n].size
    BY <2>2, Zenon DEF Totals
  <2>4. QED
    BY <2>1, <2>3
<1>3. 0 \in T
  BY <1>1, <1>2
<1>4. ASSUME NEW n \in T PROVE n + 1 \in T
  <2> SUFFICES ASSUME n + 1 <= Len(list) PROVE f[n + 1] = g[n + 1] /\ f[n + 1] \in Nat
    BY <1>4
  <2>1. n \in Nat /\ n + 1 \in 1 .. Len(list) /\ f[n] = g[n] /\ f[n] \in Nat
    BY <1>1, <1>4
  <2>2. n + 1 \in 0 .. Len(list) /\ n + 1 # 0 /\ n + 1 - 1 = n
    BY <2>1
  <2>3. f[n + 1] = f[n] + list[n + 1].size /\ g[n + 1] = g[n] + more[n + 1].size
    BY <1>2, <2>2
  <2>4. list[n + 1] = more[n + 1] /\ list[n + 1].size \in Nat
    BY <1>1, <2>1
  <2>5. QED
    BY <2>1, <2>3, <2>4
<1>5. \A n \in Nat : n \in T
  <2> HIDE DEF T
  <2>1. T \subseteq Nat
    BY DEF T
  <2>2. QED
    BY <1>3, <1>4, <2>1, EveryNatural
<1>6. QED
  BY <1>1, <1>5

(* What TotalBytes returns.                                                *)
LEMMA TotalBytesIs ==
  ASSUME NEW list \in Seq(Entries)
  PROVE  \E f : Totals(list, f) /\ TotalBytes(list) = f[Len(list)]
<1> DEFINE F == CHOOSE f : f = [n \in 0 .. Len(list) |-> IF n = 0 THEN 0 ELSE f[n - 1] + list[n].size]
<1>1. Totals(list, F)
  BY TotalsExist DEF Totals
<1>2. TotalBytes(list) = F[Len(list)]
  BY DEF TotalBytes
<1> HIDE DEF F
<1>3. QED
  BY <1>1, <1>2

(* No entries have no bytes.                                               *)
LEMMA TotalOfNone == TotalBytes(<< >>) = 0
<1>1. << >> \in Seq(Entries) /\ Len(<< >>) = 0
  BY EmptySeq
<1>2. PICK f : Totals(<< >>, f) /\ TotalBytes(<< >>) = f[Len(<< >>)]
  BY <1>1, TotalBytesIs
<1>3. 0 \in 0 .. Len(<< >>)
  BY <1>1
<1>4. f[0] = 0
  BY <1>2, <1>3, Zenon DEF Totals
<1>5. QED
  BY <1>1, <1>2, <1>4

(* One entry more.                                                         *)
LEMMA TotalOfAppend ==
  ASSUME NEW list \in Seq(Entries), NEW w \in Entries
  PROVE  /\ TotalBytes(list) \in Nat
         /\ TotalBytes(Append(list, w)) = TotalBytes(list) + w.size
<1>1. PICK more : more = Append(list, w)
  OBVIOUS
<1>2. PICK m \in Nat : m = Len(list)
  BY LenProperties
<1>3. /\ more \in Seq(Entries) /\ Len(more) = m + 1 /\ more[m + 1] = w
      /\ \A i \in 1 .. m : list[i] = more[i]
  BY <1>1, <1>2, AppendProperties
<1>4. PICK f : Totals(list, f) /\ TotalBytes(list) = f[m]
  BY <1>2, TotalBytesIs
<1>5. PICK g : Totals(more, g) /\ TotalBytes(more) = g[m + 1]
  BY <1>3, TotalBytesIs
<1>6. f[m] = g[m] /\ f[m] \in Nat
  <2>1. Len(list) <= Len(more) /\ \A i \in 1 .. Len(list) : list[i] = more[i]
    BY <1>2, <1>3
  <2>2. \A n \in 0 .. Len(list) : f[n] = g[n] /\ f[n] \in Nat
    BY <1>3, <1>4, <1>5, <2>1, TotalsUnique
  <2>3. QED
    BY <1>2, <2>2
<1>7. \A n \in 0 .. Len(more) : g[n] = IF n = 0 THEN 0 ELSE g[n - 1] + more[n].size
  BY <1>5, Zenon DEF Totals
<1>8. g[m + 1] = g[m] + w.size
  <2>1. m + 1 \in 0 .. Len(more) /\ m + 1 # 0 /\ m + 1 - 1 = m
    BY <1>2, <1>3
  <2>2. QED
    BY <1>3, <1>7, <2>1
<1>9. TotalBytes(more) = TotalBytes(list) + w.size
  BY <1>4, <1>5, <1>6, <1>8
<1>10. QED
  BY <1>1, <1>4, <1>6, <1>9

-----------------------------------------------------------------------------
(* What a result tells.                                                    *)

(* The list is of warnings among all of them, in their order, and within   *)
(* the bounds.                                                             *)
Tells(list, all) ==
  /\ \E origin \in [1 .. Len(list) -> 1 .. Len(all)] :
       /\ \A i \in 1 .. Len(list) : list[i] = all[origin[i]]
       /\ \A i, j \in 1 .. Len(list) : i < j => origin[i] < origin[j]
  /\ Len(list) <= MaxWarnings
  /\ TotalBytes(list) <= MaxWarningBytes

(* The result of a turn that kept this list of n warnings.                 *)
Taken(list, n) == IF n = Len(list) THEN list ELSE Append(list, Marker(n - Len(list)))

Report(list, n, changed) ==
  IF changed THEN AppendWarning(Taken(list, n), Warning("modified", OwnSize)) ELSE Taken(list, n)

(* Up to the turn's end the connection holds what it tells of and counts   *)
(* the rest; from then on the result does.                                 *)
Accounts ==
  /\ \A i \in 1 .. Len(raised) : raised[i].about \notin {"modified", "omitted"}
  /\ outcome = "reviewed" => pc \in {"close", "closed"}
  /\ pc = "integrity" => ~ modified
  /\ ~ TurnOver =>
       /\ Tells(held.list, raised)
       /\ held.bytes = TotalBytes(held.list)
       /\ Len(held.list) + held.omitted = Len(raised)
       /\ ~ modified
  /\ TurnOver =>
       \E list \in Seq(Entries) :
         /\ Tells(list, raised)
         /\ Len(list) <= Len(raised)
         /\ reported = Report(list, Len(raised), modified)

(* Nothing has been raised.                                                *)
LEMMA AccountsInit == Init => Accounts
<1> SUFFICES ASSUME Init PROVE Accounts
  OBVIOUS
<1>1. /\ held.list = << >> /\ held.bytes = 0 /\ held.omitted = 0 /\ raised = << >> /\ ~ modified
      /\ pc = "spawn" /\ outcome = "none"
  BY DEF Init, NoWarnings
<1>2. Len(<< >>) = 0 /\ MaxWarnings \in Nat /\ MaxWarningBytes \in Nat
  BY WarningsAssumption
<1>3. [i \in 1 .. 0 |-> 0] \in [1 .. 0 -> 1 .. 0]
  OBVIOUS
<1>4. Tells(<< >>, << >>)
  <2>1. [i \in 1 .. 0 |-> 0] \in [1 .. Len(<< >>) -> 1 .. Len(<< >>)]
    BY <1>2, <1>3, Zenon
  <2>2. 1 .. Len(<< >>) = {}
    BY <1>2
  <2>3. Len(<< >>) <= MaxWarnings /\ TotalBytes(<< >>) <= MaxWarningBytes
    BY <1>2, TotalOfNone
  <2>4. QED
    BY <2>1, <2>2, <2>3, Zenon DEF Tells
<1>5. ~ TurnOver
  BY <1>1 DEF TurnOver
<1>6. Tells(held.list, raised) /\ held.bytes = TotalBytes(held.list)
  BY <1>1, <1>4, TotalOfNone, Zenon
<1>7. QED
  BY <1>1, <1>2, <1>5, <1>6 DEF Accounts

(* A warning more that the list does not take.                             *)
LEMMA TellsLess ==
  ASSUME NEW list \in Seq(Entries), NEW all \in Seq(Entries), NEW w \in Entries, Tells(list, all)
  PROVE  Tells(list, Append(all, w))
<1>1. PICK origin \in [1 .. Len(list) -> 1 .. Len(all)] :
        /\ \A i \in 1 .. Len(list) : list[i] = all[origin[i]]
        /\ \A i, j \in 1 .. Len(list) : i < j => origin[i] < origin[j]
  BY DEF Tells
<1>2. PICK more : more = Append(all, w)
  OBVIOUS
<1>3. Len(all) \in Nat /\ Len(more) = Len(all) + 1 /\ \A i \in 1 .. Len(all) : more[i] = all[i]
  BY <1>2, AppendProperties
<1>4. origin \in [1 .. Len(list) -> 1 .. Len(more)]
  BY <1>3
<1>5. \A i \in 1 .. Len(list) : list[i] = more[origin[i]]
  <2>1. ASSUME NEW i \in 1 .. Len(list) PROVE list[i] = more[origin[i]]
    <3>1. origin[i] \in 1 .. Len(all)
      OBVIOUS
    <3>2. QED
      BY <1>1, <1>3, <3>1, Zenon
  <2>2. QED
    BY <2>1
<1>6. Tells(list, more)
  BY <1>1, <1>4, <1>5, Zenon DEF Tells
<1>7. QED
  BY <1>2, <1>6, Zenon

(* A warning more that the list takes.                                     *)
LEMMA TellsMore ==
  ASSUME NEW list \in Seq(Entries), NEW all \in Seq(Entries), NEW w \in Entries, Tells(list, all),
         Len(list) < MaxWarnings, TotalBytes(list) + w.size <= MaxWarningBytes
  PROVE  Tells(Append(list, w), Append(all, w))
<1>1. PICK origin \in [1 .. Len(list) -> 1 .. Len(all)] :
        /\ \A i \in 1 .. Len(list) : list[i] = all[origin[i]]
        /\ \A i, j \in 1 .. Len(list) : i < j => origin[i] < origin[j]
  BY DEF Tells
<1>2. PICK more : more = Append(all, w)
  OBVIOUS
<1>3. PICK longer : longer = Append(list, w)
  OBVIOUS
<1>4. PICK n \in Nat : n = Len(list)
  BY LenProperties
<1>5. PICK m \in Nat : m = Len(all)
  BY LenProperties
<1>6. Len(more) = m + 1 /\ more[m + 1] = w /\ \A i \in 1 .. m : more[i] = all[i]
  BY <1>2, <1>5, AppendProperties
<1>7. Len(longer) = n + 1 /\ longer[n + 1] = w /\ \A i \in 1 .. n : longer[i] = list[i]
  BY <1>3, <1>4, AppendProperties
<1> DEFINE o == [i \in 1 .. n + 1 |-> IF i = n + 1 THEN m + 1 ELSE origin[i]]
<1>8. o \in [1 .. n + 1 -> 1 .. m + 1] /\ o[n + 1] = m + 1
  BY <1>4, <1>5
<1>9. ASSUME NEW i \in 1 .. n
      PROVE  o[i] = origin[i] /\ o[i] \in 1 .. m /\ i \in 1 .. n + 1 /\ i # n + 1
  BY <1>4, <1>5
<1> HIDE DEF o
<1>10. \A i \in 1 .. n + 1 : i \in 1 .. n \/ i = n + 1
  OBVIOUS
<1>11. \A i \in 1 .. n + 1 : longer[i] = more[o[i]]
  <2>1. ASSUME NEW i \in 1 .. n PROVE longer[i] = more[o[i]]
    BY <1>1, <1>4, <1>6, <1>7, <1>9, Zenon
  <2>2. longer[n + 1] = more[o[n + 1]]
    BY <1>6, <1>7, <1>8, Zenon
  <2>3. QED
    BY <1>10, <2>1, <2>2, Zenon
<1>12. \A i, j \in 1 .. n + 1 : i < j => o[i] < o[j]
  <2>1. ASSUME NEW i \in 1 .. n + 1, NEW j \in 1 .. n + 1, i < j PROVE o[i] < o[j]
    <3>1. i \in 1 .. n
      BY <2>1
    <3>2. CASE j \in 1 .. n
      BY <1>1, <1>4, <1>9, <2>1, <3>1, <3>2, Zenon
    <3>3. CASE j = n + 1
      <4>1. o[i] \in 1 .. m
        BY <1>9, <3>1
      <4>2. QED
        BY <1>8, <3>3, <4>1
    <3>4. QED
      BY <1>10, <3>2, <3>3
  <2>2. QED
    BY <2>1
<1>13. Len(longer) <= MaxWarnings /\ TotalBytes(longer) <= MaxWarningBytes
  <2>1. TotalBytes(longer) = TotalBytes(list) + w.size
    BY <1>3, TotalOfAppend
  <2>2. MaxWarnings \in Nat
    BY WarningsAssumption
  <2>3. QED
    BY <1>4, <1>7, <2>1, <2>2
<1>14. Tells(longer, more)
  <2>1. o \in [1 .. Len(longer) -> 1 .. Len(more)]
    BY <1>6, <1>7, <1>8
  <2>2. \A i \in 1 .. Len(longer) : longer[i] = more[o[i]]
    BY <1>7, <1>11
  <2>3. \A i, j \in 1 .. Len(longer) : i < j => o[i] < o[j]
    BY <1>7, <1>12
  <2>4. QED
    BY <1>13, <2>1, <2>2, <2>3, Zenon DEF Tells
<1>15. QED
  BY <1>2, <1>3, <1>14, Zenon

(* A warning that is raised is told of or counted.                         *)
LEMMA AccountsRaise ==
  ASSUME WarningsTypeOK, Accounts, ~ TurnOver, NEW w \in Entries, Raise(w),
         w.about \notin {"modified", "omitted"}
  PROVE  /\ \A i \in 1 .. Len(raised') : raised'[i].about \notin {"modified", "omitted"}
         /\ Tells(held'.list, raised')
         /\ held'.bytes = TotalBytes(held'.list)
         /\ Len(held'.list) + held'.omitted = Len(raised')
<1>1. /\ held.list \in Seq(Entries) /\ held.omitted \in Nat /\ held.bytes \in Nat
      /\ raised \in Seq(Entries) /\ Len(raised) \in Nat /\ Len(held.list) \in Nat
      /\ held \in [list : Seq(Entries), bytes : 0 .. MaxWarningBytes, omitted : Nat]
  BY LenProperties DEF WarningsTypeOK
<1>2. /\ \A i \in 1 .. Len(raised) : raised[i].about \notin {"modified", "omitted"}
      /\ Tells(held.list, raised)
      /\ held.bytes = TotalBytes(held.list)
      /\ Len(held.list) + held.omitted = Len(raised)
  BY DEF Accounts
<1>3. raised' = Append(raised, w) /\ held' = RecordWarning(held, w)
  BY DEF Raise
<1>4. /\ Len(raised') = Len(raised) + 1 /\ raised'[Len(raised) + 1] = w
      /\ \A i \in 1 .. Len(raised) : raised'[i] = raised[i]
  BY <1>1, <1>3, AppendProperties
<1>5. \A i \in 1 .. Len(raised') : raised'[i].about \notin {"modified", "omitted"}
  <2>1. \A i \in 1 .. Len(raised') : i \in 1 .. Len(raised) \/ i = Len(raised) + 1
    BY <1>1, <1>4
  <2>2. QED
    BY <1>2, <1>4, <2>1, Zenon
<1>6. CASE Len(held.list) >= MaxWarnings \/ held.bytes + w.size > MaxWarningBytes
  <2>1. held' = [held EXCEPT !.omitted = @ + 1]
    BY <1>3, <1>6, Zenon DEF RecordWarning
  <2>2. held'.list = held.list /\ held'.bytes = held.bytes /\ held'.omitted = held.omitted + 1
    BY <1>1, <2>1
  <2>3. Tells(held.list, Append(raised, w))
    BY <1>1, <1>2, TellsLess
  <2>4. Tells(held'.list, raised')
    BY <1>3, <2>2, <2>3, Zenon
  <2>5. held'.bytes = TotalBytes(held'.list)
    BY <1>2, <2>2, Zenon
  <2>6. Len(held'.list) + held'.omitted = Len(raised')
    <3>1. Len(held'.list) = Len(held.list) /\ held'.omitted = held.omitted + 1
      BY <2>2, Zenon
    <3>2. /\ Len(held.list) \in Nat /\ held.omitted \in Nat /\ Len(raised) \in Nat
          /\ Len(held.list) + held.omitted = Len(raised) /\ Len(raised') = Len(raised) + 1
      BY <1>1, <1>2, <1>4
    <3>3. Len(held.list) + (held.omitted + 1) = Len(raised) + 1
      BY <3>2
    <3>4. QED
      BY <3>1, <3>2, <3>3, Zenon
  <2>7. QED
    BY <1>5, <2>4, <2>5, <2>6, Zenon
<1>7. CASE ~ (Len(held.list) >= MaxWarnings \/ held.bytes + w.size > MaxWarningBytes)
  <2>1. held' = [held EXCEPT !.list = Append(@, w), !.bytes = @ + w.size]
    BY <1>3, <1>7, Zenon DEF RecordWarning
  <2>2. held'.list = Append(held.list, w) /\ held'.bytes = held.bytes + w.size /\ held'.omitted = held.omitted
    BY <1>1, <2>1
  <2>3. MaxWarnings \in Nat /\ MaxWarningBytes \in Nat /\ w.size \in Nat
    BY WarningsAssumption DEF Entries
  <2>4. Len(held.list) < MaxWarnings /\ TotalBytes(held.list) + w.size <= MaxWarningBytes
    BY <1>1, <1>2, <1>7, <2>3
  <2>5. Tells(Append(held.list, w), Append(raised, w))
    BY <1>1, <1>2, <2>4, TellsMore
  <2>6. Tells(held'.list, raised')
    BY <1>3, <2>2, <2>5, Zenon
  <2>7. TotalBytes(Append(held.list, w)) = TotalBytes(held.list) + w.size
    BY <1>1, TotalOfAppend
  <2>8. held'.bytes = TotalBytes(held'.list)
    BY <1>2, <2>2, <2>7, Zenon
  <2>9. Len(held'.list) = Len(held.list) + 1
    BY <1>1, <2>2, AppendProperties
  <2>10. QED
    BY <1>1, <1>2, <1>4, <1>5, <2>2, <2>6, <2>8, <2>9
<1>8. QED
  BY <1>6, <1>7

(* A turn's end takes over what the connection holds.                      *)
LEMMA TakenByTurn ==
  ASSUME NEW h \in Notices, NEW n \in Nat, Len(h.list) + h.omitted = n
  PROVE  TakeWarnings(h) = Taken(h.list, n)
<1>1. h.omitted \in Nat /\ Len(h.list) \in Nat
  BY LenProperties DEF Notices
<1>2. (h.omitted = 0 <=> n = Len(h.list)) /\ n - Len(h.list) = h.omitted
  BY <1>1
<1>3. QED
  BY <1>2, Zenon DEF TakeWarnings, Taken

(* Each step keeps this.                                                   *)
LEMMA AccountsStep == TypeOK /\ Accounts /\ [Next]_vars => Accounts'
<1> SUFFICES ASSUME TypeOK, Accounts, [Next]_vars PROVE Accounts'
  OBVIOUS
<1>1. WarningsTypeOK /\ CallTypeOK
  BY DEF TypeOK
<1> DEFINE Kept ==
      /\ UNCHANGED <<held, reported, raised, modified>>
      /\ pc' = "integrity" <=> pc = "integrity"
      /\ outcome' = "reviewed" <=> outcome = "reviewed"
      /\ outcome = "reviewed" => pc' \in {"close", "closed"}
<1>2. CASE Kept
  <2>1. TurnOver' <=> TurnOver
    BY <1>2 DEF TurnOver
  <2>2. QED
    BY <1>2, <2>1 DEF Accounts
<1> DEFINE Raised ==
      /\ ~ TurnOver
      /\ \E w \in Entries : Raise(w) /\ w.about \notin {"modified", "omitted"}
      /\ UNCHANGED <<reported, modified>>
      /\ pc' # "integrity" /\ outcome' # "reviewed"
<1>3. CASE Raised
  <2>1. PICK w \in Entries : Raise(w) /\ w.about \notin {"modified", "omitted"}
    BY <1>3
  <2>2. /\ \A i \in 1 .. Len(raised') : raised'[i].about \notin {"modified", "omitted"}
        /\ Tells(held'.list, raised')
        /\ held'.bytes = TotalBytes(held'.list)
        /\ Len(held'.list) + held'.omitted = Len(raised')
    BY <1>1, <1>3, <2>1, AccountsRaise
  <2>3. ~ TurnOver' /\ ~ modified'
    BY <1>3 DEF TurnOver, Accounts
  <2>4. QED
    BY <1>3, <2>2, <2>3 DEF Accounts
<1>4. CASE ServerAsks
  <2>1. PICK n \in Sizes : Raise(Warning("asked", n))
    BY <1>4 DEF ServerAsks
  <2>2. Warning("asked", n) \in Entries /\ Warning("asked", n).about \notin {"modified", "omitted"}
    BY SetupAssumption, WarningType DEF Kinds, Warning
  <2>3. UNCHANGED <<pc, reported, modified, outcome>>
    BY <1>4 DEF ServerAsks
  <2>4. CASE TurnOver
    <3>1. UNCHANGED raised /\ TurnOver'
      BY <2>1, <2>3, <2>4 DEF Raise, TurnOver
    <3>2. QED
      BY <2>3, <2>4, <3>1 DEF Accounts
  <2>5. CASE ~ TurnOver
    <3>1. pc' # "integrity" /\ outcome' # "reviewed"
      BY <2>3, <2>5 DEF TurnOver
    <3>2. QED
      BY <1>3, <2>1, <2>2, <2>3, <2>5, <3>1
  <2>6. QED
    BY <2>4, <2>5
<1>5. CASE Named
  <2>1. Warning("name", OwnSize) \in Entries /\ Warning("name", OwnSize).about \notin {"modified", "omitted"}
    BY SetupAssumption, WarningType DEF Kinds, Warning
  <2>2. /\ pc \in {"name", "naming"} /\ pc' \in {"close", "turn"} /\ outcome' \in {"aborted", "ready"}
        /\ UNCHANGED <<reported, modified>>
        /\ UNCHANGED <<held, raised>> \/ Raise(Warning("name", OwnSize))
    BY <1>5 DEF Named, Returns, Ends
  <2>3. outcome # "reviewed" /\ ~ TurnOver
    BY <2>2 DEF Accounts, TurnOver
  <2>4. QED
    BY <1>2, <1>3, <2>1, <2>2, <2>3
<1>6. CASE UnarchiveReturns
  <2>1. /\ Warning("unarchived", OwnSize) \in Entries
        /\ Warning("unarchived", OwnSize).about \notin {"modified", "omitted"}
    BY SetupAssumption, WarningType DEF Kinds, Warning
  <2>2. /\ pc \in {"unarchive", "unarchiving"} /\ pc' \in {"close", "again"}
        /\ outcome' \in {outcome, "unavailable", "aborted"}
        /\ UNCHANGED <<reported, modified>>
        /\ UNCHANGED <<held, raised>> \/ Raise(Warning("unarchived", OwnSize))
    BY <1>6 DEF UnarchiveReturns, Returns, Ends, Unarchived, ResumeError
  <2>3. outcome # "reviewed" /\ ~ TurnOver
    BY <2>2 DEF Accounts, TurnOver
  <2>4. QED
    BY <1>2, <1>3, <2>1, <2>2, <2>3
<1>7. CASE TurnCompletes
  <2>1. /\ pc = "turn" /\ reported' = TakeWarnings(held) /\ UNCHANGED <<raised, modified>>
        /\ pc' \in {"integrity", "close"} /\ TurnOver'
        /\ outcome' = "reviewed" => pc' = "close"
    <3>1. outcome # "reviewed"
      BY <1>7 DEF TurnCompletes, Accounts
    <3>2. QED
      BY <1>7, <3>1 DEF TurnCompletes, Ends, TurnOver
  <2>2. ~ TurnOver
    BY <2>1 DEF TurnOver, Accounts
  <2>3. /\ Tells(held.list, raised) /\ Len(held.list) + held.omitted = Len(raised) /\ ~ modified
        /\ held \in Notices /\ Len(raised) \in Nat
    BY <1>1, <2>2, LenProperties DEF Accounts, WarningsTypeOK, Notices
  <2>4. held.list \in Seq(Entries) /\ Len(held.list) <= Len(raised)
    BY <2>3, LenProperties DEF Notices
  <2>5. reported' = Report(held.list, Len(raised), modified)
    <3>1. TakeWarnings(held) = Taken(held.list, Len(raised))
      BY <2>3, TakenByTurn
    <3>2. QED
      BY <2>1, <2>3, <3>1, Zenon DEF Report
  <2>6. QED
    BY <2>1, <2>3, <2>4, <2>5 DEF Accounts
<1>8. CASE CheckIntegrity
  <2>1. /\ pc = "integrity" /\ pc' = "close" /\ outcome' = "reviewed" /\ UNCHANGED raised
        /\ modified' \in BOOLEAN
        /\ reported' = IF modified' THEN AppendWarning(reported, Warning("modified", OwnSize)) ELSE reported
    BY <1>8 DEF CheckIntegrity, Ends
  <2>2. PICK list \in Seq(Entries) :
          Tells(list, raised) /\ Len(list) <= Len(raised) /\ reported = Taken(list, Len(raised))
    BY <2>1 DEF Accounts, TurnOver, Report
  <2>3. reported' = Report(list, Len(raised), modified')
    BY <2>1, <2>2, Zenon DEF Report
  <2>4. TurnOver'
    BY <2>1 DEF TurnOver
  <2>5. QED
    BY <2>1, <2>2, <2>3, <2>4 DEF Accounts
<1>9. CASE Close
  BY <1>2, <1>9 DEF Close, warnings
<1>10. CASE Handle \/ ContextEnds \/ ConnectionEnds \/ Human \/ UNCHANGED vars
  <2>1. UNCHANGED <<held, reported, raised, modified, pc, outcome>>
    BY <1>10 DEF Handle, ContextEnds, ConnectionEnds, Human, vars, warnings
  <2>2. QED
    BY <1>2, <2>1 DEF Accounts
<1>11. CASE TurnFails \/ Spawn \/ HandshakeFails \/ StartFails
  <2>1. /\ UNCHANGED <<held, reported, raised, modified>>
        /\ pc \notin {"integrity", "close", "closed"} /\ pc' # "integrity"
        /\ outcome' \in {outcome, "turn failed", "failed", "aborted"}
    BY <1>11 DEF TurnFails, Spawn, HandshakeFails, StartFails, Ends, SetupError, Returns, warnings
  <2>2. QED
    BY <1>2, <2>1 DEF Accounts
<1>12. CASE \/ Initialize \/ Initialized \/ NotifyInitialized \/ StartThread \/ Started
            \/ SetThreadName \/ ResumeThread \/ UnarchiveThread \/ ResumeAgain
  <2>1. /\ UNCHANGED <<held, reported, raised, modified, outcome>>
        /\ pc \notin {"integrity", "close", "closed"} /\ pc' # "integrity"
    BY <1>12 DEF Initialize, Initialized, NotifyInitialized, StartThread, Started, SetThreadName,
       ResumeThread, UnarchiveThread, ResumeAgain, Call, Returns, warnings
  <2>2. QED
    BY <1>2, <2>1 DEF Accounts
<1>13. CASE Resumed
  <2>1. PICK e \in Errors :
          /\ Returns("resume", "resuming", e)
          /\ CASE e = "none" -> pc' = "turn" /\ outcome' = "ready"
               [] Recovers(e) -> pc' = "unarchive" /\ UNCHANGED outcome
               [] OTHER -> Ends(ResumeError(e))
    BY <1>13 DEF Resumed
  <2>2. UNCHANGED <<held, reported, raised, modified>> /\ pc \in {"resume", "resuming"}
    BY <1>13 DEF Resumed, warnings, Returns
  <2>3. pc' \in {"turn", "unarchive", "close"} /\ outcome' \in {"ready", outcome, "unavailable", "aborted"}
    <3>1. CASE e = "none"
      BY <2>1, <3>1
    <3>2. CASE e # "none" /\ Recovers(e)
      BY <2>1, <3>2
    <3>3. CASE e # "none" /\ ~ Recovers(e)
      <4>1. Ends(ResumeError(e))
        BY <2>1, <3>3
      <4>2. QED
        BY <4>1 DEF Ends, ResumeError
    <3>4. QED
      BY <3>1, <3>2, <3>3
  <2>4. QED
    BY <1>2, <2>2, <2>3 DEF Accounts
<1>14. CASE ResumedAgain
  <2>1. PICK e \in Errors :
          /\ Returns("again", "resumingAgain", e)
          /\ IF e = "none" THEN pc' = "turn" /\ outcome' = "ready" ELSE Ends(ResumeError(e))
    BY <1>14 DEF ResumedAgain
  <2>2. UNCHANGED <<held, reported, raised, modified>> /\ pc \in {"again", "resumingAgain"}
    BY <1>14 DEF ResumedAgain, warnings, Returns
  <2>3. pc' \in {"turn", "close"} /\ outcome' \in {"ready", "unavailable", "aborted"}
    BY <2>1 DEF Ends, ResumeError
  <2>4. QED
    BY <1>2, <2>2, <2>3 DEF Accounts
<1>15. QED
  BY <1>4, <1>5, <1>6, <1>7, <1>8, <1>9, <1>10, <1>11, <1>12, <1>13, <1>14 DEF Next

(* The result's entries: what is told, then the count, then the checkout.  *)
Places(list, kind) == {i \in DOMAIN list : list[i].about = kind}

(* One entry more.                                                         *)
LEMMA PlacesAppend ==
  ASSUME NEW list \in Seq(Entries), NEW w \in Entries, NEW kind
  PROVE  Places(Append(list, w), kind) =
           Places(list, kind) \cup (IF w.about = kind THEN {Len(list) + 1} ELSE {})
<1>1. PICK more : more = Append(list, w)
  OBVIOUS
<1>2. /\ Len(list) \in Nat /\ DOMAIN list = 1 .. Len(list) /\ DOMAIN more = 1 .. Len(list) + 1
      /\ more[Len(list) + 1] = w /\ \A i \in 1 .. Len(list) : more[i] = list[i]
  BY <1>1, AppendProperties
<1>3. \A i : i \in 1 .. Len(list) + 1 <=> i \in 1 .. Len(list) \/ i = Len(list) + 1
  BY <1>2
<1>4. Places(more, kind) = Places(list, kind) \cup (IF w.about = kind THEN {Len(list) + 1} ELSE {})
  BY <1>2, <1>3, Zenon DEF Places
<1>5. QED
  BY <1>1, <1>4, Zenon

(* The entries of a turn's result.                                         *)
LEMMA TakenEntries ==
  ASSUME NEW list \in Seq(Entries), NEW n \in Nat, Len(list) <= n,
         \A i \in 1 .. Len(list) : list[i].about \notin {"modified", "omitted"}
  PROVE  LET t == Taken(list, n)
             counts == IF n = Len(list) THEN {} ELSE {Len(list) + 1}
         IN /\ t \in Seq(Entries)
            /\ Places(t, "omitted") = counts /\ Places(t, "modified") = {}
            /\ DOMAIN t = 1 .. Len(list) \cup counts
            /\ Len(t) = Len(list) + Cardinality(counts)
            /\ \A i \in 1 .. Len(list) : t[i] = list[i]
            /\ \A i \in counts : t[i].count = n - Len(list)
            /\ TotalBytes(t) = TotalBytes(list) + MarkerBytes * Cardinality(counts)
<1> DEFINE t == Taken(list, n)
           counts == IF n = Len(list) THEN {} ELSE {Len(list) + 1}
           w == Marker(n - Len(list))
<1>1. /\ Len(list) \in Nat /\ DOMAIN list = 1 .. Len(list) /\ MarkerBytes \in Nat
      /\ TotalBytes(list) \in Nat
  <2>1. \A v \in Entries : TotalBytes(list) \in Nat
    BY TotalOfAppend
  <2>2. Warning("asked", 0) \in Entries
    BY WarningType DEF Kinds
  <2>3. QED
    BY <2>1, <2>2, LenProperties, WarningsAssumption
<1>2. Places(list, "omitted") = {} /\ Places(list, "modified") = {}
  BY <1>1 DEF Places
<1>3. CASE n = Len(list)
  <2>1. t = list /\ counts = {}
    BY <1>3, Zenon DEF Taken
  <2>2. Cardinality(counts) = 0
    BY <2>1, FS_EmptySet, Zenon
  <2>3. MarkerBytes * 0 = 0
    BY <1>1
  <2> HIDE DEF t, counts, w
  <2>4. TotalBytes(t) = TotalBytes(list) + MarkerBytes * Cardinality(counts)
    <3>1. TotalBytes(t) = TotalBytes(list)
      BY <2>1, Zenon
    <3>2. QED
      BY <1>1, <2>2, <2>3, <3>1
  <2>5. QED
    BY <1>1, <1>2, <2>1, <2>2, <2>4 DEF t, counts
<1>4. CASE n # Len(list)
  <2>1. t = Append(list, w) /\ counts = {Len(list) + 1}
    BY <1>4, Zenon DEF Taken
  <2>2. Cardinality(counts) = 1
    BY <2>1, FS_Singleton, Zenon
  <2>3. w \in Entries /\ w.about = "omitted" /\ w.size = MarkerBytes /\ w.count = n - Len(list)
    <3>1. n - Len(list) \in Nat
      BY <1>1
    <3>2. QED
      BY <1>1, <3>1 DEF Marker, Entries, Kinds
  <2> HIDE DEF t, counts, w
  <2>4. /\ t \in Seq(Entries) /\ DOMAIN t = 1 .. Len(list) + 1 /\ Len(t) = Len(list) + 1
        /\ t[Len(list) + 1] = w /\ \A i \in 1 .. Len(list) : t[i] = list[i]
    BY <1>1, <2>1, <2>3, AppendProperties
  <2>5. Places(t, "omitted") = counts /\ Places(t, "modified") = {}
    <3>1. /\ Places(t, "omitted") = Places(list, "omitted") \cup (IF w.about = "omitted" THEN {Len(list) + 1} ELSE {})
          /\ Places(t, "modified") = Places(list, "modified") \cup (IF w.about = "modified" THEN {Len(list) + 1} ELSE {})
      BY <2>1, <2>3, PlacesAppend
    <3>2. w.about # "modified"
      BY <2>3
    <3>3. QED
      BY <1>2, <2>1, <2>3, <3>1, <3>2
  <2>6. DOMAIN t = 1 .. Len(list) \cup counts
    <3>1. 1 .. Len(list) + 1 = 1 .. Len(list) \cup {Len(list) + 1}
      BY <1>1
    <3>2. QED
      BY <2>1, <2>4, <3>1, Zenon
  <2>7. TotalBytes(t) = TotalBytes(list) + MarkerBytes * Cardinality(counts)
    <3>1. TotalBytes(t) = TotalBytes(list) + MarkerBytes
      <4>1. TotalBytes(Append(list, w)) = TotalBytes(list) + w.size
        BY <2>3, TotalOfAppend
      <4>2. QED
        BY <2>1, <2>3, <4>1, Zenon
    <3>2. MarkerBytes * 1 = MarkerBytes
      BY <1>1
    <3>3. QED
      BY <2>2, <3>1, <3>2, Zenon
  <2>8. \A i \in counts : t[i].count = n - Len(list)
    BY <2>1, <2>3, <2>4, Zenon
  <2>9. Len(t) = Len(list) + Cardinality(counts)
    BY <2>2, <2>4, Zenon
  <2>10. QED
    BY <2>4, <2>5, <2>6, <2>7, <2>8, <2>9, Zenon DEF t, counts
<1>5. QED
  BY <1>3, <1>4

(* A result that tells of what was raised, and counts the rest, says so.   *)
LEMMA ReportAccounts ==
  ASSUME TypeOK, NEW list \in Seq(Entries), Tells(list, raised), Len(list) <= Len(raised),
         \A i \in 1 .. Len(raised) : raised[i].about \notin {"modified", "omitted"},
         reported = Report(list, Len(raised), modified)
  PROVE  WarningsAccounted
<1> DEFINE n == Len(list)
           t == Taken(list, Len(raised))
           w == Warning("modified", OwnSize)
           counts == IF Len(raised) = n THEN {} ELSE {n + 1}
           changed == Places(reported, "modified")
           said == DOMAIN reported \ (Places(reported, "omitted") \cup changed)
<1>1. /\ n \in Nat /\ Len(raised) \in Nat /\ DOMAIN raised = 1 .. Len(raised) /\ modified \in BOOLEAN
      /\ MarkerBytes \in Nat /\ MaxWarnings \in Nat /\ MaxWarningBytes \in Nat /\ OwnSize \in Nat
  BY WarningsAssumption, SetupAssumption, LenProperties DEF TypeOK, WarningsTypeOK
<1>2. PICK origin \in [1 .. n -> 1 .. Len(raised)] :
        /\ \A i \in 1 .. n : list[i] = raised[origin[i]]
        /\ \A i, j \in 1 .. n : i < j => origin[i] < origin[j]
  BY DEF Tells
<1>3. n <= MaxWarnings /\ TotalBytes(list) <= MaxWarningBytes
  BY DEF Tells
<1>4. \A i \in 1 .. n : list[i].about \notin {"modified", "omitted"}
  <2>1. ASSUME NEW i \in 1 .. n PROVE list[i].about \notin {"modified", "omitted"}
    <3>1. origin[i] \in 1 .. Len(raised)
      OBVIOUS
    <3>2. QED
      BY <1>2, <3>1, Zenon
  <2>2. QED
    BY <2>1
<1>5. /\ t \in Seq(Entries)
      /\ Places(t, "omitted") = counts /\ Places(t, "modified") = {}
      /\ DOMAIN t = 1 .. n \cup counts
      /\ Len(t) = n + Cardinality(counts)
      /\ \A i \in 1 .. n : t[i] = list[i]
      /\ \A i \in counts : t[i].count = Len(raised) - n
      /\ TotalBytes(t) = TotalBytes(list) + MarkerBytes * Cardinality(counts)
  BY <1>1, <1>4, TakenEntries
<1>6. w \in Entries /\ w.about = "modified" /\ w.size = OwnSize
  BY <1>1, WarningType DEF Kinds, Warning
<1>7. /\ Cardinality(counts) \in {0, 1} /\ (counts = {} => Len(raised) = n)
      /\ MarkerBytes * Cardinality(counts) \in Nat
  <2>1. CASE Len(raised) = n
    <3>1. counts = {} /\ Cardinality(counts) = 0
      BY <2>1, FS_EmptySet, Zenon
    <3>2. MarkerBytes * 0 \in Nat
      BY <1>1
    <3>3. QED
      BY <2>1, <3>1, <3>2, Zenon
  <2>2. CASE Len(raised) # n
    <3>1. counts = {n + 1} /\ Cardinality(counts) = 1
      BY <2>2, FS_Singleton, Zenon
    <3>2. MarkerBytes * 1 \in Nat
      BY <1>1
    <3>3. QED
      BY <3>1, <3>2, Zenon
  <2>3. QED
    BY <2>1, <2>2
<1>8. \A i \in counts : i = n + 1
  OBVIOUS
<1>10. TotalBytes(list) \in Nat /\ TotalBytes(t) \in Nat
  BY <1>5, <1>6, TotalOfAppend
<1> HIDE DEF n, t, w, counts, said, changed
<1>9. Cardinality(1 .. n) = n
  <2>1. Cardinality(1 .. n) = IF 1 > n THEN 0 ELSE n - 1 + 1
    BY <1>1, FS_Interval
  <2>2. QED
    BY <1>1, <2>1
<1> DEFINE bytes == MarkerBytes * Cardinality(counts)
<1>11. /\ Len(t) <= MaxWarnings + Cardinality(counts)
       /\ TotalBytes(t) <= MaxWarningBytes + MarkerBytes * Cardinality(counts)
  <2>1. bytes \in Nat /\ Cardinality(counts) \in Nat /\ TotalBytes(t) = TotalBytes(list) + bytes
    BY <1>5, <1>7
  <2> HIDE DEF bytes
  <2>2. Len(t) <= MaxWarnings + Cardinality(counts) /\ TotalBytes(t) <= MaxWarningBytes + bytes
    BY <1>1, <1>3, <1>5, <1>10, <2>1
  <2>3. QED
    BY <2>2 DEF bytes
<1>12. 1 .. n \cap counts = {}
  BY <1>1, <1>8
<1> DEFINE Facts ==
      /\ said = 1 .. n /\ Places(reported, "omitted") = counts
      /\ \A i \in 1 .. n : reported[i] = list[i]
      /\ \A i \in counts : reported[i].count = Len(raised) - n
      /\ Len(reported) <= MaxWarnings + Cardinality(counts)
      /\ TotalBytes(reported) <= MaxWarningBytes + MarkerBytes * Cardinality(counts)
      /\ changed # {} => modified
      /\ modified /\ changed = {} =>
           Len(reported) >= MaxWarnings \/ TotalBytes(reported) + OwnSize > MaxWarningBytes
<1>13. ASSUME reported = t,
              modified => Len(t) >= MaxWarnings \/ TotalBytes(t) + OwnSize > MaxWarningBytes
       PROVE  Facts
  <2>1. DOMAIN reported = 1 .. n \cup counts /\ Places(reported, "omitted") = counts /\ changed = {}
    BY <1>5, <1>13, Zenon DEF changed
  <2>2. said = 1 .. n
    BY <1>12, <2>1 DEF said
  <2>3. changed # {} => modified
    BY <2>1, Zenon
  <2>4. /\ Len(reported) <= MaxWarnings + Cardinality(counts)
        /\ TotalBytes(reported) <= MaxWarningBytes + MarkerBytes * Cardinality(counts)
    BY <1>11, <1>13, Zenon
  <2>5. (\A i \in 1 .. n : reported[i] = list[i]) /\ (\A i \in counts : reported[i].count = Len(raised) - n)
    BY <1>5, <1>13, Zenon
  <2>6. modified => Len(reported) >= MaxWarnings \/ TotalBytes(reported) + OwnSize > MaxWarningBytes
    BY <1>13, Zenon
  <2>7. QED
    BY <2>1, <2>2, <2>3, <2>4, <2>5, <2>6, Zenon
<1>14. ASSUME modified, reported = Append(t, w),
              Len(t) < MaxWarnings, TotalBytes(t) + OwnSize <= MaxWarningBytes
       PROVE  Facts
  <2> DEFINE last == Len(t) + 1
  <2>0. t \in Seq(Entries) /\ w \in Entries /\ reported = Append(t, w)
    BY <1>5, <1>6, <1>14, Zenon
  <2>1. /\ Len(t) \in Nat /\ DOMAIN t = 1 .. Len(t) /\ DOMAIN reported = 1 .. last /\ Len(reported) = last
        /\ \A i \in 1 .. Len(t) : reported[i] = t[i]
    <3>1. /\ Len(t) \in Nat /\ DOMAIN t = 1 .. Len(t)
          /\ Len(Append(t, w)) = last /\ Append(t, w) \in Seq(Entries)
          /\ \A i \in 1 .. Len(t) : Append(t, w)[i] = t[i]
      BY <2>0, AppendProperties, LenProperties
    <3>2. DOMAIN Append(t, w) = 1 .. last
      BY <3>1, LenProperties
    <3>3. QED
      BY <2>0, <3>1, <3>2, Zenon
  <2>2. Places(reported, "omitted") = counts /\ changed = {last}
    <3>1. /\ Places(reported, "omitted") = Places(t, "omitted") \cup (IF w.about = "omitted" THEN {last} ELSE {})
          /\ changed = Places(t, "modified") \cup (IF w.about = "modified" THEN {last} ELSE {})
      <4>1. \A kind : Places(Append(t, w), kind) = Places(t, kind) \cup (IF w.about = kind THEN {last} ELSE {})
        BY <2>0, PlacesAppend
      <4>2. QED
        BY <2>0, <4>1, Zenon DEF changed
    <3>2. w.about # "omitted"
      BY <1>6
    <3>3. QED
      BY <1>5, <1>6, <3>1, <3>2
  <2>3. TotalBytes(reported) = TotalBytes(t) + OwnSize
    <3>1. TotalBytes(Append(t, w)) = TotalBytes(t) + w.size
      BY <1>5, <1>6, TotalOfAppend
    <3>2. QED
      BY <1>6, <1>14, <3>1, Zenon
  <2>4. /\ Len(reported) <= MaxWarnings + Cardinality(counts)
        /\ TotalBytes(reported) <= MaxWarningBytes + MarkerBytes * Cardinality(counts)
    <3>1. bytes \in Nat /\ Cardinality(counts) \in Nat
      BY <1>7
    <3> HIDE DEF bytes, last
    <3>2. Len(reported) <= MaxWarnings + Cardinality(counts) /\ TotalBytes(reported) <= MaxWarningBytes + bytes
      <4>1. Len(t) \in Nat /\ Len(t) < MaxWarnings /\ Len(reported) = Len(t) + 1
        BY <1>14, <2>1 DEF last
      <4>2. TotalBytes(reported) <= MaxWarningBytes
        BY <1>14, <2>3, Zenon
      <4>3. TotalBytes(reported) \in Nat
        BY <1>1, <1>10, <2>3
      <4>4. QED
        BY <1>1, <3>1, <4>1, <4>2, <4>3
    <3>3. QED
      BY <3>2 DEF bytes
  <2>5. 1 .. last = DOMAIN t \cup {last} /\ last \notin DOMAIN t
    BY <2>1
  <2> HIDE DEF last
  <2>6. DOMAIN reported = (1 .. n \cup counts) \cup {last} /\ last \notin 1 .. n \cup counts
    BY <1>5, <2>1, <2>5, Zenon
  <2>7. said = 1 .. n
    BY <1>12, <2>2, <2>6 DEF said
  <2>8. \A i \in 1 .. n \cup counts : reported[i] = t[i]
    BY <1>5, <2>1, Zenon
  <2>9. \A i \in counts : reported[i].count = Len(raised) - n
    BY <1>5, <2>8, Zenon
  <2>10. \A i \in 1 .. n : reported[i] = list[i]
    BY <1>5, <2>8, Zenon
  <2>11. changed # {}
    BY <2>2
  <2>12. QED
    BY <1>14, <2>2, <2>4, <2>7, <2>9, <2>10, <2>11, Zenon
<1>15. Facts
  <2> HIDE DEF Facts
  <2>1. CASE ~ modified
    <3>1. reported = t
      BY <2>1, Zenon DEF Report, t
    <3>2. QED
      BY <1>13, <2>1, <3>1, Zenon
  <2>2. CASE modified
    <3>1. reported = AppendWarning(t, w)
      BY <2>2, Zenon DEF Report, t, w
    <3>2. CASE Len(t) >= MaxWarnings \/ TotalBytes(t) + w.size > MaxWarningBytes
      <4>1. reported = t
        BY <3>1, <3>2, Zenon DEF AppendWarning
      <4>2. Len(t) >= MaxWarnings \/ TotalBytes(t) + OwnSize > MaxWarningBytes
        BY <1>6, <3>2, Zenon
      <4>3. QED
        BY <1>13, <4>1, <4>2, Zenon
    <3>3. CASE ~ (Len(t) >= MaxWarnings \/ TotalBytes(t) + w.size > MaxWarningBytes)
      <4>1. reported = Append(t, w)
        BY <3>1, <3>3, Zenon DEF AppendWarning
      <4>2. Len(t) < MaxWarnings /\ TotalBytes(t) + OwnSize <= MaxWarningBytes
        BY <1>1, <1>5, <1>6, <1>10, <3>3, LenProperties
      <4>3. QED
        BY <1>14, <2>2, <4>1, <4>2, Zenon
    <3>4. QED
      BY <3>2, <3>3
  <2>3. QED
    BY <2>1, <2>2
<1>16. origin \in [said -> DOMAIN raised]
  <2>1. origin \in [1 .. n -> 1 .. Len(raised)]
    BY DEF n
  <2>2. QED
    BY <1>1, <1>15, <2>1, Zenon
<1>17. /\ \A i \in said : reported[i] = raised[origin[i]]
       /\ \A i, j \in said : i < j => origin[i] < origin[j]
  BY <1>2, <1>15, Zenon
<1>18. /\ counts = {} => Cardinality(said) = Len(raised)
       /\ \A i \in counts : reported[i].count = Len(raised) - Cardinality(said)
       /\ Cardinality(counts) <= 1
  <2>1. Cardinality(said) = n
    BY <1>9, <1>15, Zenon
  <2>2. Cardinality(counts) <= 1
    BY <1>7
  <2>3. QED
    BY <1>7, <1>15, <2>1, <2>2, Zenon
<1>19. QED
  <2>1. /\ \E from \in [said -> DOMAIN raised] :
             /\ \A i \in said : reported[i] = raised[from[i]]
             /\ \A i, j \in said : i < j => from[i] < from[j]
        /\ Places(reported, "omitted") = {} => Cardinality(said) = Len(raised)
        /\ \A i \in Places(reported, "omitted") : reported[i].count = Len(raised) - Cardinality(said)
        /\ Cardinality(Places(reported, "omitted")) <= 1
        /\ Len(reported) <= MaxWarnings + Cardinality(Places(reported, "omitted"))
        /\ TotalBytes(reported) <= MaxWarningBytes + MarkerBytes * Cardinality(Places(reported, "omitted"))
        /\ changed # {} => modified
        /\ modified /\ changed = {} =>
             Len(reported) >= MaxWarnings \/ TotalBytes(reported) + OwnSize > MaxWarningBytes
    BY <1>15, <1>16, <1>17, <1>18, Zenon
  <2>2. QED
    BY <2>1, Zenon DEF WarningsAccounted, Places, said, changed

-----------------------------------------------------------------------------

IInv == TypeOK /\ Ownership /\ Telling /\ Handoff /\ Accounts

(* The inductive invariant, for any human and any child.                   *)
LEMMA IInvHolds == Spec => []IInv
<1>1. Init => Ownership
  BY DEF Init, Ownership, Working
<1>2. Init => Handoff
  BY DEF Init, Handoff
<1>3. Init => Telling
  BY DEF Init, Telling
<1>4. Init => IInv
  BY <1>1, <1>2, <1>3, TypeInit, AccountsInit DEF IInv
<1>5. TypeOK /\ [Next]_vars => TypeOK'
  BY ServerTypeStep, CallTypeStep, WarningsTypeStep DEF TypeOK
<1>6. IInv /\ [Next]_vars => IInv'
  BY <1>5, OwnershipStep, TellingStep, HandoffStep, AccountsStep DEF IInv, TypeOK
<1>7. QED
  BY <1>4, <1>6, PTL DEF Spec

(* The types, the bound on the bytes of the warnings among them.           *)
THEOREM TypeCorrect == Spec => []TypeOK
<1>1. IInv => TypeOK
  BY DEF IInv
<1>2. QED
  BY IInvHolds, <1>1, PTL

(* Whatever the human and the child do, a turn starts only on an active    *)
(* thread this call's child writes to, and an unarchive is told of or      *)
(* counted (review.go, the archive handoff).                               *)
THEOREM TurnStartsOnOwnThread == Spec => []TurnOnOwnThread
<1>1. IInv => TurnOnOwnThread
  BY DEF IInv, TypeOK, ServerTypeOK, CallTypeOK, CallSteps, Outcomes, Ownership, Telling, TurnOnOwnThread, Told
<1>2. QED
  BY IInvHolds, <1>1, PTL

(* If the human leaves the thread alone during the call, it is reported    *)
(* unavailable only when it was deleted or the app held it, the connection *)
(* ended or an answer was off policy.                                      *)
THEOREM HandoffIsTaken == Spec => []HandoffTaken
<1>1. IInv => HandoffTaken
  BY DEF IInv, TypeOK, ServerTypeOK, CallTypeOK, CallSteps, Outcomes, Answers, Handoff, HandoffTaken, Gone
<1>2. QED
  BY IInvHolds, <1>1, PTL

(* Whatever the child asks for, whatever the sizes and the bounds, a       *)
(* completed review tells of every warning raised before its turn ended,   *)
(* in order, or counts it, and of a changed checkout when there is room    *)
(* (conn.go, recordWarning and takeWarnings; client.go, AppendWarning).    *)
THEOREM WarningsAreAccounted == Spec => []WarningsAccounted
<1>1. IInv => WarningsAccounted
  <2> SUFFICES ASSUME IInv, outcome = "reviewed" PROVE WarningsAccounted
    BY DEF WarningsAccounted
  <2>1. TurnOver /\ TypeOK
    BY DEF TurnOver, IInv
  <2>2. /\ \A i \in 1 .. Len(raised) : raised[i].about \notin {"modified", "omitted"}
        /\ \E list \in Seq(Entries) :
             /\ Tells(list, raised)
             /\ Len(list) <= Len(raised)
             /\ reported = Report(list, Len(raised), modified)
    BY <2>1 DEF IInv, Accounts
  <2>3. QED
    BY <2>1, <2>2, ReportAccounts
<1>2. QED
  BY IInvHolds, <1>1, PTL
=============================================================================
