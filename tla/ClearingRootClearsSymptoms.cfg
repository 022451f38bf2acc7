SPECIFICATION Spec
CONSTANTS
  Codes <- MCCodes
  Rules <- MCRules
  Choice = "HIGHEST_SEVERITY"
  Severities = {1, 2}
  MaxReports = 4
  LastReport = 2
  MaxTime = 4
PROPERTY ClearingRootClearsSymptoms
CHECK_DEADLOCK FALSE
