SPECIFICATION SysFairSpec
CONSTANTS
  p1 = p1
  p2 = p2
  u1 = u1
  u2 = u2
  a = a
  b = b
  Clients = {p1, p2}
  Users = {u1, u2}
  UserOf <- OwnIds
  Models = {a, b}
  Requested = a
  Cheap = b
  InitRows <- GraceAndLearned
  Sessions = {s1, s2}
  NoSession = NoSession
  None = None
  Nothing = Nothing
  NoFile = NoFile
  ReservoirSize = 4
  Columns = 3
  GraceCells = 10
  MaxCache = 2
  MaxReports <- TwoAndOne
INVARIANTS
  SysTypeOK
  OneModelPerSession
  NoLateVerdict
  NothingLeftBehind
  NobodyStuck
PROPERTIES
  KeepsPromise
  PromptSettled
  SessionsReclaimed
