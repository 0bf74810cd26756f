SPECIFICATION Spec
CONSTANTS
  c1 = c1
  c2 = c2
  s1 = s1
  s2 = s2
  Free = Free
  Older = Older
  NoThread = NoThread
  NoState = NoState
  NoRequest = NoRequest
  NoWorkflow = NoWorkflow
  Calls <- OneCall
  Servers = {s1}
  ServerOf <- AloneServer
  Workflows <- TwoWorkflows
  Requests = {q1, q2}
  Threads = {t1, t2, t3}
  ReviewSizes = {1, 2, 3}
  StateLimit = 9
  MaxRound = 4
  MaxCrashes = 0
  MaxEdits = 0
  MaxHistoryRecords = 2
  MaxHistoryRecordBytes = 2
  MaxHistoryBytes = 4
  RecordFraming = 1
  RecordFramingBytes = 2
INVARIANTS
  TypeOK
  SavedRecordsValid
PROPERTIES
  EvictedOnlyWhenTooLarge
  HistoryNeverBlocksSave
SYMMETRY SymmetricIds
