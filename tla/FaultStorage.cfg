SPECIFICATION Spec
CONSTANTS
  Codes = {F1}
  Sources <- MCSources
  Parameters <- MCParameters
  AutoConfirmAfter = 2
  MaxOccurrences = 2
  LastReport = 2
INVARIANTS SettlesWithinBand NearMissesMissed
PROPERTIES LatchHolds 
CHECK_DEADLOCK FALSE
