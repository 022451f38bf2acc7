SPECIFICATION Spec
CONSTANTS
  Codes <- MCCodes
  Rules <- MCRules
  Configs <- MCConfigs
  AutoConfirmAfter = 1
  MaxReports = 3
  MaxClears = 2
  LastReport = 2
  MaxTime = 3
INVARIANTS StreamTells AuditTells
CHECK_DEADLOCK FALSE
