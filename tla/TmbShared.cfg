SPECIFICATION FairSpec
CONSTANTS
  c1 = c1
  c2 = c2
  u1 = u1
  u2 = u2
  a = a
  b = b
  Users = {u1, u2}
  Clients = {c1, c2}
  UserOf <- SharedId
  Models = {a}
  InitRows <- GraceRows
  Sessions = {s1, s2, s3}
  NoSession = NoSession
  None = None
  NoFile = NoFile
  ReservoirSize = 5
  Columns = 3
  GraceCells = 10
  MaxCache = 1
INVARIANTS
  TypeOK
  EvidenceIsOwn
  VerdictHasEvidence
  NoMissedSignal
PROPERTIES
  RequestAnswered
