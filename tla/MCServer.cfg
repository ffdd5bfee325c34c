CONSTANTS
  MaxMessages = 3
  NumProcessors = 2
  MaxDeaths = 1
SPECIFICATION FairSpec
INVARIANTS TypeOK NeverQueued AnsweredBeforeExit
PROPERTIES OnePool AcceptedIsAnswered ConsumerIsReplaced StopEnds
CHECK_DEADLOCK FALSE
