CONSTANTS
    WorkersCount <- MC_Workers
    ItemsCount <- MC_Items
    Iterations <- MC_TwoIterations
    ResultsQueueSize <- MC_ResultsQueueSize
    SharedQueueSize <- MC_SharedQueueSize
    ProcessBehaviours <- MC_PublishOnly
SPECIFICATION Spec
INVARIANT AllIterationsVentilated
CHECK_DEADLOCK FALSE
