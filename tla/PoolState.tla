------------------------------ MODULE PoolState ------------------------------
(***************************************************************************)
(* State shared by the threads of petastorm's ThreadPool                   *)
(* (src/petastorm/workers_pool/thread_pool.py) and of the                  *)
(* ConcurrentVentilator that feeds it (ventilator.py).                     *)
(*                                                                         *)
(* The model starts where ThreadPool.start() has created the queues and    *)
(* started the N worker threads and the round-robin consumer thread, and   *)
(* is about to start the ventilator (thread_pool.py lines 193-196).        *)
(*                                                                         *)
(* Data abstraction: a work item (a dict of kwargs) is identified by its   *)
(* ventilation index, the value of ThreadPool._ventilated_items after it   *)
(* was put; the pool never looks inside an item.  A result is a record     *)
(* naming the worker that published it, the item it was produced for, and *)
(* its kind: a "data" result published by worker_impl.process, the         *)
(* VentilatedItemProcessedMessage "marker", or an exception "exc".         *)
(***************************************************************************)
EXTENDS Naturals, Sequences, SequencesExt

CONSTANTS
    WorkersCount,       \* ThreadPool.workers_count
    ItemsCount,         \* len(items_to_ventilate) of the ConcurrentVentilator
    Iterations,         \* ConcurrentVentilator iterations (a positive int)
    ResultsQueueSize,   \* capacity of each _results_queues[i]; the code uses 5
    SharedQueueSize,    \* capacity of _shared_results_queue; the code uses 25
    ProcessBehaviours   \* what the external worker_impl.process may do

ASSUME PoolAssumption ==
    /\ WorkersCount \in Nat \ {0}
    /\ ItemsCount \in Nat
    /\ Iterations \in Nat \ {0}
    /\ ResultsQueueSize \in Nat \ {0}
    /\ SharedQueueSize \in Nat \ {0}
    /\ ProcessBehaviours \subseteq {"publish", "raise"}
    /\ ProcessBehaviours # {}

Workers == 0 .. (WorkersCount - 1)

\* The largest ventilation index the ventilator thread can reach.
MaxItems == Iterations * ItemsCount

ItemIds == 1 .. MaxItems

Kinds == {"data", "marker", "exc"}

Result == [w : Workers, id : ItemIds, kind : Kinds]

VARIABLES
    inQ,            \* _ventilator_queues: worker -> FIFO of item ids (unbounded)
    held,           \* the item a worker thread has taken and is handling; 0 = none
    status,         \* _worker_status: TRUE = busy, FALSE = idle
    wpc,            \* where each WorkerThread.run is
    resQ,           \* _results_queues: worker -> bounded FIFO of results
    shared,         \* _shared_results_queue: bounded FIFO of results
    mpc,            \* where _round_robin_consumer is
    cur,            \* its current_worker
    hand,           \* the item it has taken and not yet put (a sequence, at most 1)
    vpc,            \* where the ventilation thread (_ventilate) is
    vpos,           \* the loop index i of the current ventilate() call
    viter,          \* the loop index i of _ventilate's iteration loop
    ventilated,     \* ThreadPool._ventilated_items
    stopRequested,  \* ConcurrentVentilator._stop_requested
    attached,       \* ThreadPool._ventilator is not None
    cpc,            \* where the caller of get_results() is
    scan,           \* the worker_id of all_workers_done()'s loop in the caller's completed()
    outcome,        \* how the caller's last get_results() call ended
    delivered,      \* the results get_results() has returned, in order
    caught,         \* the exception get_results() took off the shared queue (at most 1)
    xpc             \* where a second user thread calling ThreadPool.stop() is

workerVars == <<inQ, held, status, wpc>>
mergerVars == <<mpc, cur, hand>>
ventVars == <<vpc, vpos, viter, ventilated, stopRequested, attached>>
callerVars == <<cpc, scan, outcome, delivered, caught, xpc>>
vars == <<inQ, held, status, wpc, resQ, shared, mpc, cur, hand,
          vpc, vpos, viter, ventilated, stopRequested, attached,
          cpc, scan, outcome, delivered, caught, xpc>>

WorkerPcs == {"get", "picked", "process", "put_data", "put_marker",
              "set_idle", "put_exc", "exited"}
MergerPcs == {"loop", "take", "forward", "exited"}
VentPcs == {"unstarted", "call", "done", "crashed"}
CallerPcs == {"start_vent", "check", "get", "stop_vent", "join_vent", "done"}
StopperPcs == {"idle", "join_vent", "raised"}
Outcomes == {"none", "end_of_stream", "worker_exception", "attribute_error"}

\* queue.Queue(maxsize).full() for a bounded queue q.
Full(q, cap) == Len(q) >= cap

TypeOK ==
    /\ inQ \in [Workers -> Seq(ItemIds)]
    /\ held \in [Workers -> {0} \cup ItemIds]
    /\ status \in [Workers -> BOOLEAN]
    /\ wpc \in [Workers -> WorkerPcs]
    /\ resQ \in [Workers -> Seq(Result)]
    /\ \A w \in Workers : Len(resQ[w]) <= ResultsQueueSize
    /\ shared \in Seq(Result)
    /\ Len(shared) <= SharedQueueSize
    /\ mpc \in MergerPcs
    /\ cur \in Workers
    /\ hand \in Seq(Result)
    /\ Len(hand) <= 1
    /\ vpc \in VentPcs
    /\ vpos \in 0 .. ItemsCount
    /\ viter \in 0 .. (Iterations - 1)
    /\ ventilated \in 0 .. MaxItems
    /\ stopRequested \in BOOLEAN
    /\ attached \in BOOLEAN
    /\ cpc \in CallerPcs
    /\ scan \in 0 .. WorkersCount
    /\ outcome \in Outcomes
    /\ delivered \in Seq(Result)
    /\ caught \in Seq(Result)
    /\ Len(caught) <= 1
    /\ xpc \in StopperPcs
=============================================================================
