SPECIFICATION FairSpec
CONSTANTS
  c1 = c1
  c2 = c2
  s1 = s1
  s2 = s2
  Free = Free
  Older = Older
  NoThread = NoThread
  NoState = NoState
  NoRequest = NoRequest
  NoWorkflow = NoWorkflow
  Calls <- TwoCalls
  Servers = {s1}
  ServerOf <- OneServer
  Workflows <- OneWorkflow
  Requests = {q1, q2}
  Threads = {t1, t2, t3}
  ReviewSizes = {1}
  StateLimit = 3
  MaxRound = 2
  MaxCrashes = 1
  MaxEdits = 1
  MaxHistoryRecords = 2
  MaxHistoryRecordBytes = 2
  MaxHistoryBytes = 4
  RecordFraming = 1
  RecordFramingBytes = 2
PROPERTIES
  CallsEnd
