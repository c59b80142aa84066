---------------------------- MODULE MC_ThreadPool ----------------------------
(***************************************************************************)
(* Small instances of ThreadPool for TLC.  The code's queue capacities     *)
(* (5 and 25) are scaled down so that full queues are reached with a       *)
(* handful of items.                                                       *)
(***************************************************************************)
EXTENDS ThreadPool

MC_Workers == 2
MC_Items == 3
MC_Iterations == 1
MC_TwoIterations == 2
MC_FourWorkers == 4
MC_TwoItems == 2
MC_ResultsQueueSize == 1
MC_SharedQueueSize == 2
\* Room for every result of one iteration of two items (a data result
\* and a marker or an exception each): the shared queue never fills.
MC_NoDropSharedQueue == 2 * MC_TwoItems * MC_Iterations
MC_OneItem == 1
MC_Behaviours == {"publish", "raise"}
MC_PublishOnly == {"publish"}
=============================================================================
