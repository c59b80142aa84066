CONSTANTS
    WorkersCount <- MC_FourWorkers
    ItemsCount <- MC_TwoItems
    Iterations <- MC_TwoIterations
    ResultsQueueSize <- MC_ResultsQueueSize
    SharedQueueSize <- MC_SharedQueueSize
    ProcessBehaviours <- MC_PublishOnly
SPECIFICATION Spec
INVARIANT CompletedAfterVentilation
CHECK_DEADLOCK FALSE
