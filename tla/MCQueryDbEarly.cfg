SPECIFICATION DbSpec
CONSTANTS
  Inputs = {"a", "b"}
  Queries = {"half", "pick", "check", "all"}
  InputValues = {0, 1, 2}
  Script <- MCScript
  FirstRunsSucceed = FALSE
  MaxRevision = 4
  MaxLeaked = 8
INVARIANT AnswersCurrent
CHECK_DEADLOCK FALSE
