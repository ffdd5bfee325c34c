CONSTANTS
  MaxMessages = 3
  NumProcessors = 2
  MaxDeaths = 0
SPECIFICATION Spec
PROPERTIES DisabledStartsNothing
CHECK_DEADLOCK FALSE
