SPECIFICATION Spec
CONSTANTS
  Waiters = {w1, w2}
  MaxCalls = 2
INVARIANTS
  TypeOK
  AnswerInTimeIsHeard
  OwnAnswer
  FramesOutliveHandlers
  NoLostWakeup
PROPERTIES
  EveryWaitReturns
