SPECIFICATION FairRpc
CONSTANTS
  MaxJobs = 4
  MaxText = 2
INVARIANTS
  IInv
  AnsweredIsBarrier
  FailureToldOnce
  SentWasProcessed
PROPERTIES
  IdleLeavesOnlyTheCurrentJob
  ImplementsWorkQueue
  EveryRequestAnswered
  EveryJobExecuted
