SPECIFICATION Spec
CONSTANTS
  Manual = {"booted", "audit_measured", "quoted"}
  MaxLog = 7
  MaxLines = 2
INVARIANTS
  TypeOK
  AcceptedIsUnedited
  HonestIsAccepted
  ReplayIsQuoted
  LatestIsQuoted
  PrintedIsPcr10
