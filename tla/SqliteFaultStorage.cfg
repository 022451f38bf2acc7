SPECIFICATION SSpec
CONSTANTS
  Codes = {F1}
  Sources <- MCSources
  Parameters <- MCParameters
  AutoConfirmAfter = 1
  MaxOccurrences = 2
  LastReport = 2
INVARIANTS ConfirmedIsDated
PROPERTY AgreesWithInMemory
CHECK_DEADLOCK FALSE
