SPECIFICATION ClientSpec
CONSTANTS
  MaxSessions = 4
  MaxFailures = 3
  MaxLosses = 3
  Slow = TRUE
  Sends = TRUE
  MaxRequest = 3
  IdSpace = 2
  Large <- LastLarge
  Closes = TRUE
  MaxTimeouts = 1
INVARIANTS CalledOnce AnswerIsOwn RemovesItsOwn
PROPERTIES Answered Reconnects RefusalIsReported
CHECK_DEADLOCK FALSE
