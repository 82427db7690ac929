SPECIFICATION Spec
CONSTANTS
  Flights = {f1, f2}
  MaxJobs = 2
  Requests = {q1, q2, q3, q4}
  Limit = 2
  Calls = {c1, c2, c3}
  UseCache = {c1, c2}
  Processes = {p1}
  NoAnswer = NoAnswer
  Files <- SmallFiles
  Settings <- SmallSettings
CHECK_DEADLOCK FALSE
INVARIANTS
  TypeOK
  AtMostLimit
  TruncatedIsTrue
  EveryLineIndexed
PROPERTIES
  PageCatchesUp
  LetInAgain
