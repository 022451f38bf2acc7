SPECIFICATION Spec
CONSTANTS
  Codes <- MCCodes
  Rules <- MCRules
  Choice = "HIGHEST_SEVERITY"
  Severities = {1, 2}
  MaxReports = 4
  LastReport = 2
  MaxTime = 4
INVARIANTS FormingClustersIndexed
PROPERTIES ClearForgets WindowsClose
CHECK_DEADLOCK FALSE
