CONSTANTS
    WorkersCount <- MC_Workers
    ItemsCount <- MC_Items
    Iterations <- MC_Iterations
    ResultsQueueSize <- MC_ResultsQueueSize
    SharedQueueSize <- MC_SharedQueueSize
    ProcessBehaviours <- MC_PublishOnly
SPECIFICATION FairSpec
PROPERTY GetResultsEventuallyEnds
CHECK_DEADLOCK FALSE
