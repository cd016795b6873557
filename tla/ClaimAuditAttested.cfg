SPECIFICATION Spec
CONSTANTS
  Manual = {"audit_copied", "rules_open", "rules_copied"}
  MaxLog = 6
  MaxLines = 2
INVARIANTS
  UnattestedIsUnattested
