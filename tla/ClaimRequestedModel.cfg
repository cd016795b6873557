SPECIFICATION FullSpec
CONSTANTS
  p1 = p1
  u1 = u1
  a = a
  b = b
  Clients = {p1}
  Users = {u1}
  UserOf <- OwnId
  Models = {a, b}
  Requested = a
  Cheap = b
  InitRows <- GraceAndLearned
  Sessions = {s1, s2}
  NoSession = NoSession
  None = None
  Nothing = Nothing
  NoFile = NoFile
  ReservoirSize = 4
  Columns = 3
  GraceCells = 10
  MaxCache = 2
  MaxReports <- Two
INVARIANT
  VerifiedIsRequested
