SPECIFICATION FairSpec
CONSTANTS
  c1 = c1
  c2 = c2
  u1 = u1
  u2 = u2
  a = a
  b = b
  Users = {u1, u2}
  Clients = {c1, c2}
  UserOf <- OwnIds
  Models = {a}
  InitRows <- GraceRows
  Sessions = {s1, s2}
  NoSession = NoSession
  None = None
  NoFile = NoFile
  ReservoirSize = 4
  Columns = 3
  GraceCells = 10
  MaxCache = 2
INVARIANTS
  ReleasedMeansAwake
PROPERTIES
  ImplementsBox
  ImplementsFairBox
  AskedIsReclaimed
