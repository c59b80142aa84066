CONSTANTS
    WorkersCount <- MC_Workers
    ItemsCount <- MC_Items
    Iterations <- MC_Iterations
    ResultsQueueSize <- MC_ResultsQueueSize
    SharedQueueSize <- MC_SharedQueueSize
    ProcessBehaviours <- MC_Behaviours
SPECIFICATION Spec
INVARIANT EmptyPoolEndsStream
CHECK_DEADLOCK FALSE
