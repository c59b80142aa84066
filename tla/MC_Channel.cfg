CONSTANTS
    WorkersCount <- MC_FourWorkers
    ItemsCount <- MC_TwoItems
    Iterations <- MC_Iterations
    ResultsQueueSize <- MC_ResultsQueueSize
    SharedQueueSize <- MC_NoDropSharedQueue
    ProcessBehaviours <- MC_Behaviours
SPECIFICATION FairSpec
PROPERTY ImplementsResultChannel StopJoinReturns
CHECK_DEADLOCK FALSE
