SPECIFICATION Spec
CONSTANTS
  root = root
  main2 = main2
  topic1 = topic1
  topic2 = topic2
  amended = amended
  stranger = stranger
  topic = topic
  Main = Main
  Master = Master
  None = None
  HEAD = HEAD
  Elsewhere = Elsewhere
  Commits = {root, main2, topic1, topic2, amended, stranger}
  Ancestry <- History
  Unusable = {amended}
  Names <- Branches
  Repos <- Start
  Requests <- Asked
  Records <- Earlier
  MaxActs = 2
INVARIANTS
  TypeOK
  UndisturbedIsExact
  TargetHolds
CHECK_DEADLOCK FALSE
