CONSTANTS
  MaxJobs = 3
  MaxOwn = 2
  Limit = 1
SPECIFICATION FairSpec
CHECK_DEADLOCK FALSE
INVARIANTS TypeOK Sequential AnswersShift HandledInOrder
PROPERTIES EveryJobCompletes EveryLineHandled
