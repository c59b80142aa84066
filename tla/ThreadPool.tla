------------------------------ MODULE ThreadPool ------------------------------
(***************************************************************************)
(* ThreadPool (thread_pool.py): the round-robin consumer thread that       *)
(* merges the per-worker result queues into the shared queue, the          *)
(* completion predicate, and one caller thread that starts the ventilator  *)
(* and then calls get_results() again and again, composed with the worker  *)
(* threads (WorkerThread) and the ventilation thread (Ventilator).         *)
(***************************************************************************)
EXTENDS WorkerThread, Ventilator

\* _is_worker_idle, lines 209-211.
IsWorkerIdle(w) == ~status[w]

\* One worker's part of all_workers_done (line 236) and should_skip (361-365).
WorkerDrained(w) ==
    /\ resQ[w] = <<>>
    /\ IsWorkerIdle(w)
    /\ inQ[w] = <<>>

\* all_workers_done, lines 233-238.
AllWorkersDone == \A w \in Workers : WorkerDrained(w)

\* The rest of ThreadPool.completed once all_workers_done() has returned True
\* (lines 243-245): the shared queue is empty and the ventilator reports completed.
CompletedAfterScan ==
    /\ shared = <<>>
    /\ VentilatorCompleted

(***************************************************************************)
(* The head of the loop of _round_robin_consumer (lines 351-372): it ends  *)
(* when all_workers_done() holds, and skips a drained current worker.      *)
(* The stop_event test of line 351 is always false (see WorkerThread).     *)
(***************************************************************************)
MergerLoop ==
    /\ mpc = "loop"
    /\ \/ /\ AllWorkersDone
          /\ mpc' = "exited"
          /\ UNCHANGED cur
       \/ /\ ~AllWorkersDone
          /\ WorkerDrained(cur)
          /\ cur' = (cur + 1) % WorkersCount
          /\ UNCHANGED mpc
       \/ /\ ~AllWorkersDone
          /\ ~WorkerDrained(cur)
          /\ mpc' = "take"
          /\ UNCHANGED cur
    /\ UNCHANGED <<hand, workerVars, resQ, shared, ventVars, callerVars>>

(***************************************************************************)
(* Lines 374-391 and 398-402: take from the current worker's result queue. *)
(* use_non_blocking (line 344) chooses get(block=False) or a get with a    *)
(* 5 s timeout; both either take the head or give up and move to the next  *)
(* worker, and differ only in how long they wait, which the model leaves   *)
(* to the scheduler.                                                       *)
(***************************************************************************)
MergerTake ==
    /\ mpc = "take"
    /\ \/ /\ resQ[cur] # <<>>
          /\ hand' = <<Head(resQ[cur])>>
          /\ resQ' = [resQ EXCEPT ![cur] = Tail(@)]
          /\ mpc' = "forward"
          /\ UNCHANGED cur
       \/ /\ resQ[cur] = <<>>
          /\ cur' = (cur + 1) % WorkersCount
          /\ mpc' = "loop"
          /\ UNCHANGED <<hand, resQ>>
    /\ UNCHANGED <<workerVars, shared, ventVars, callerVars>>

\* Mutant of MergerForward: the put does not respect the queue's bound.
MergerForwardUnbounded ==
    /\ mpc = "forward"
    /\ shared' = Append(shared, Head(hand))
    /\ cur' = (cur + 1) % WorkersCount
    /\ hand' = <<>>
    /\ mpc' = "loop"
    /\ UNCHANGED <<workerVars, resQ, ventVars, callerVars>>

(***************************************************************************)
(* Lines 392-397 and 403-406: put(item, block=False) into the shared       *)
(* queue.  When it is full, queue.Full is caught and the loop continues    *)
(* with the same worker; the item taken at line 378/389 is not kept.       *)
(***************************************************************************)
MergerForward ==
    /\ mpc = "forward"
    /\ \/ /\ ~Full(shared, SharedQueueSize)
          /\ shared' = Append(shared, Head(hand))
          /\ cur' = (cur + 1) % WorkersCount
       \/ /\ Full(shared, SharedQueueSize)
          /\ UNCHANGED <<shared, cur>>
    /\ hand' = <<>>
    /\ mpc' = "loop"
    /\ UNCHANGED <<workerVars, resQ, ventVars, callerVars>>

MergerNext == MergerLoop \/ MergerTake \/ MergerForward

(***************************************************************************)
(* The end of start() (lines 193-196): if a ventilator was given,          *)
(* ventilator.start() launches the ventilation thread (ventilator.py lines *)
(* 111-115), after the workers and the round-robin consumer are already    *)
(* running.                                                                *)
(***************************************************************************)
CallerStartVentilator ==
    /\ cpc = "start_vent"
    /\ \/ /\ attached' = TRUE
          /\ VentilatorStart
       \/ /\ attached' = FALSE
          /\ UNCHANGED <<vpc, vpos, viter>>
    /\ cpc' = "check"
    /\ UNCHANGED <<ventilated, stopRequested, scan, outcome, delivered, caught, xpc,
                   workerVars, resQ, shared, mergerVars>>

(***************************************************************************)
(* get_results, lines 264-267, with completed() (lines 240-247).  The      *)
(* print at line 241 runs first and calls self._ventilator.completed()     *)
(* with no None check, so without a ventilator it raises AttributeError    *)
(* whatever the queues hold.  Otherwise the prints are pure reads, and the *)
(* test that decides is all_workers_done() (lines 234-238), a loop over   *)
(* the workers with no lock: one step per worker (scan), returning False  *)
(* at the first worker not drained, then the shared queue and the          *)
(* ventilator (lines 243-245).  The workers keep running between the       *)
(* steps, so the loop may report a state that never existed at once.       *)
(***************************************************************************)
CallerCheck ==
    /\ cpc = "check"
    /\ \/ /\ ~attached
          /\ cpc' = "done"
          /\ outcome' = "attribute_error"
          /\ UNCHANGED scan
       \/ /\ attached
          /\ scan < WorkersCount
          /\ WorkerDrained(scan)
          /\ scan' = scan + 1
          /\ UNCHANGED <<cpc, outcome>>
       \/ /\ attached
          /\ scan < WorkersCount
          /\ ~WorkerDrained(scan)
          /\ scan' = 0
          /\ cpc' = "get"
          /\ UNCHANGED outcome
       \/ /\ attached
          /\ scan = WorkersCount
          /\ CompletedAfterScan
          /\ scan' = 0
          /\ cpc' = "done"
          /\ outcome' = "end_of_stream"
       \/ /\ attached
          /\ scan = WorkersCount
          /\ ~CompletedAfterScan
          /\ scan' = 0
          /\ cpc' = "get"
          /\ UNCHANGED outcome
    /\ UNCHANGED <<delivered, caught, xpc, workerVars, resQ, shared, mergerVars,
                   ventVars>>

\* Mutant of CallerGet: a processed marker is consumed without being
\* returned, as the commented-out VentilatedItemProcessedMessage branch of
\* lines 271-274 would do with a continue.
CallerGetSwallowMarker ==
    /\ cpc = "get"
    /\ \/ /\ shared # <<>>
          /\ Head(shared).kind = "data"
          /\ delivered' = Append(delivered, Head(shared))
          /\ shared' = Tail(shared)
          /\ cpc' = "check"
          /\ UNCHANGED caught
       \/ /\ shared # <<>>
          /\ Head(shared).kind = "marker"
          /\ shared' = Tail(shared)
          /\ cpc' = "check"
          /\ UNCHANGED <<delivered, caught>>
       \/ /\ shared # <<>>
          /\ Head(shared).kind = "exc"
          /\ caught' = <<Head(shared)>>
          /\ shared' = Tail(shared)
          /\ cpc' = "stop_vent"
          /\ UNCHANGED delivered
       \/ /\ shared = <<>>
          /\ cpc' = "check"
          /\ UNCHANGED <<delivered, caught, shared>>
    /\ UNCHANGED <<scan, outcome, xpc, workerVars, resQ, mergerVars, ventVars>>

(***************************************************************************)
(* get_results, lines 269-284: a get with a 0.1 s timeout.  A result is    *)
(* returned (and the caller calls again); an exception leads to stop();    *)
(* on timeout the loop goes back to the completion test.                   *)
(***************************************************************************)
CallerGet ==
    /\ cpc = "get"
    /\ \/ /\ shared # <<>>
          /\ Head(shared).kind # "exc"
          /\ delivered' = Append(delivered, Head(shared))
          /\ shared' = Tail(shared)
          /\ cpc' = "check"
          /\ UNCHANGED caught
       \/ /\ shared # <<>>
          /\ Head(shared).kind = "exc"
          /\ caught' = <<Head(shared)>>
          /\ shared' = Tail(shared)
          /\ cpc' = "stop_vent"
          /\ UNCHANGED delivered
       \/ /\ shared = <<>>
          /\ cpc' = "check"
          /\ UNCHANGED <<delivered, caught, shared>>
    /\ UNCHANGED <<scan, outcome, xpc, workerVars, resQ, mergerVars, ventVars>>

\* stop(), lines 290-291: ventilator.stop() sets _stop_requested (ventilator.py 176-177).
CallerStopVentilator ==
    /\ cpc = "stop_vent"
    /\ stopRequested' = TRUE
    /\ cpc' = "join_vent"
    /\ UNCHANGED <<vpc, vpos, viter, ventilated, attached, scan, outcome, delivered, caught, xpc,
                   workerVars, resQ, shared, mergerVars>>

(***************************************************************************)
(* ventilator.stop() then joins the ventilation thread (ventilator.py      *)
(* lines 178-180).  Back in stop(), self._round_robin_thread.stop() (lines *)
(* 292-293) raises AttributeError: get_results propagates it instead of    *)
(* the worker's exception, and neither stop_event.set() nor join() runs.   *)
(***************************************************************************)
CallerJoinVentilator ==
    /\ cpc = "join_vent"
    /\ VentilatorThreadEnded
    /\ outcome' = "attribute_error"
    /\ cpc' = "done"
    /\ UNCHANGED <<scan, delivered, caught, xpc, workerVars, resQ, shared, mergerVars,
                   ventVars>>

(***************************************************************************)
(* stop() called by a second user thread once start() has returned (the   *)
(* way a reader is stopped while another thread iterates it): lines        *)
(* 290-291 run ventilator.stop(), which sets _stop_requested and joins the *)
(* ventilation thread (ventilator.py lines 176-180); then line 293 raises  *)
(* AttributeError in that thread.  Without a ventilator line 293 raises at *)
(* once.                                                                   *)
(***************************************************************************)
StopperStopVentilator ==
    /\ xpc = "idle"
    /\ cpc # "start_vent"
    /\ attached
    /\ stopRequested' = TRUE
    /\ xpc' = "join_vent"
    /\ UNCHANGED <<vpc, vpos, viter, ventilated, attached, cpc, scan, outcome, delivered, caught,
                   workerVars, resQ, shared, mergerVars>>

StopperJoinVentilator ==
    /\ xpc = "join_vent"
    /\ VentilatorThreadEnded
    /\ xpc' = "raised"
    /\ UNCHANGED <<cpc, scan, outcome, delivered, caught, workerVars, resQ, shared,
                   mergerVars, ventVars>>

StopperWithoutVentilator ==
    /\ xpc = "idle"
    /\ cpc # "start_vent"
    /\ ~attached
    /\ xpc' = "raised"
    /\ UNCHANGED <<cpc, scan, outcome, delivered, caught, workerVars, resQ, shared,
                   mergerVars, ventVars>>

StopperNext ==
    \/ StopperStopVentilator
    \/ StopperJoinVentilator
    \/ StopperWithoutVentilator

CallerNext ==
    \/ CallerStartVentilator
    \/ CallerCheck
    \/ CallerGet
    \/ CallerStopVentilator
    \/ CallerJoinVentilator

(***************************************************************************)
(* __init__ (lines 106-124) and start() (lines 139-189): empty queues, all *)
(* workers idle at their loop head, the consumer at worker 0, the          *)
(* ventilator not yet started.                                             *)
(***************************************************************************)
Init ==
    /\ inQ = [w \in Workers |-> <<>>]
    /\ held = [w \in Workers |-> 0]
    /\ status = [w \in Workers |-> FALSE]
    /\ wpc = [w \in Workers |-> "get"]
    /\ resQ = [w \in Workers |-> <<>>]
    /\ shared = <<>>
    /\ mpc = "loop"
    /\ cur = 0
    /\ hand = <<>>
    /\ VentilatorInit
    /\ ventilated = 0
    /\ attached = FALSE
    /\ cpc = "start_vent"
    /\ scan = 0
    /\ outcome = "none"
    /\ delivered = <<>>
    /\ caught = <<>>
    /\ xpc = "idle"

Next ==
    \/ \E w \in Workers : WorkerNext(w)
    \/ MergerNext
    \/ VentilatorNext
    \/ CallerNext
    \/ StopperNext

Spec == Init /\ [][Next]_vars

(***************************************************************************)
(* Every thread is scheduled by the OS and every wait in the code is a     *)
(* poll with a timeout, so each thread that can step keeps being able to   *)
(* until it does: weak fairness per thread.  Nothing obliges a user to    *)
(* call stop(), so the second user thread's first step has no fairness;    *)
(* once it is inside stop(), it is a running thread like the others.       *)
(***************************************************************************)
FairSpec ==
    /\ Spec
    /\ \A w \in Workers : WF_vars(WorkerNext(w))
    /\ WF_vars(MergerNext)
    /\ WF_vars(VentilatorNext)
    /\ WF_vars(CallerNext)
    /\ WF_vars(StopperJoinVentilator)

-----------------------------------------------------------------------------
(***************************************************************************)
(* Properties.                                                             *)
(***************************************************************************)

(***************************************************************************)
(* The strengthening of TypeOK that the proofs use (ThreadPoolProofs).     *)
(* _ventilated_items counts exactly the items put by the ventilation       *)
(* thread (thread_pool.py line 227 against ventilator.py line 162), so it  *)
(* never exceeds iterations * len(items); a worker between its get and the *)
(* end of its handling holds an item; the consumer holds an item exactly   *)
(* while it forwards; the ventilator is started by start() alone.          *)
(***************************************************************************)
VentilationCounted == ventilated = viter * ItemsCount + vpos

HeldWhileHandling == \A w \in Workers : wpc[w] # "get" => held[w] \in ItemIds

HandWhileForwarding == mpc = "forward" <=> hand # <<>>

VentilatorStartedByStart ==
    /\ cpc = "start_vent" => vpc = "unstarted"
    /\ vpc = "unstarted" => vpos = 0 /\ viter = 0

IInv ==
    /\ TypeOK
    /\ VentilationCounted
    /\ HeldWhileHandling
    /\ HandWhileForwarding
    /\ VentilatorStartedByStart

\* Position of a result in the stream its worker emits: for one item the
\* data result comes first, then the processed marker or the exception.
Rank(r) == 3 * r.id + (CASE r.kind = "data" -> 0
                         [] r.kind = "marker" -> 1
                         [] r.kind = "exc" -> 2)

\* Worker w's results along the pipeline, from the caller back to w's queue.
Stream(w) ==
    SelectSeq(delivered \o caught \o shared \o hand \o resQ[w],
              LAMBDA r : r.w = w)

(***************************************************************************)
(* The refinement mapping to ResultChannel: worker w has sent every result *)
(* of w still in the pipeline (Stream(w)), and the caller has received     *)
(* what get_results returned, then the exception it caught.                *)
(***************************************************************************)
Channel == INSTANCE ResultChannel
               WITH Msgs <- Result,
                    sent <- [w \in Workers |-> Stream(w)],
                    recv <- delivered \o caught

(***************************************************************************)
(* The pool implements ResultChannel: every result a worker publishes      *)
(* through _stop_aware_put or its exception put reaches get_results in the *)
(* worker's order, once, with none skipped, through the result queue, the  *)
(* round-robin consumer's take and forward and the shared queue (lines     *)
(* 68-82, 374-397, 269-282).                                               *)
(***************************************************************************)
ImplementsResultChannel == Channel!Spec

\* Result a of worker w must come before result b of w: it is ranked lower and
\* is not an exception (after an exception the worker's loop breaks).
PrecedesFor(S, T, w) ==
    \A a \in S, b \in T : (a.w = w /\ b.w = w) => (Rank(a) < Rank(b) /\ a.kind # "exc")

\* The results of w in queue s are in the order w published them.
SortedFor(s, w) ==
    \A i, j \in 1 .. Len(s) : i < j => PrecedesFor({s[i]}, {s[j]}, w)

(***************************************************************************)
(* Per-worker order: along the whole pipeline (what get_results returned,  *)
(* the exception it caught, the shared queue, the consumer's hand, the     *)
(* worker's result queue) the results of one worker appear in the order    *)
(* the worker published them, with no duplicate, and a worker's exception  *)
(* is the last thing it ever published: within each FIFO, and from each    *)
(* stage to every later one (caught and hand hold at most one result).  It *)
(* is about the FIFO hand-offs of WorkerThread.run, _stop_aware_put,       *)
(* _round_robin_consumer and get_results, and the break after the          *)
(* exception (line 83).                                                    *)
(***************************************************************************)
WorkerStreamOrdered ==
    \A w \in Workers :
        /\ SortedFor(delivered, w)
        /\ SortedFor(shared, w)
        /\ SortedFor(resQ[w], w)
        /\ PrecedesFor(ToSet(delivered),
                       ToSet(caught) \cup ToSet(shared) \cup ToSet(hand) \cup ToSet(resQ[w]), w)
        /\ PrecedesFor(ToSet(caught), ToSet(shared) \cup ToSet(hand) \cup ToSet(resQ[w]), w)
        /\ PrecedesFor(ToSet(shared), ToSet(hand) \cup ToSet(resQ[w]), w)
        /\ PrecedesFor(ToSet(hand), ToSet(resQ[w]), w)

\* The worker ventilate sends the item with ventilation index id to: the item
\* is at position (id - 1) % len(items) of its call, and goes to that
\* position modulo workers_count (thread_pool.py lines 223-225).
ItemWorker(id) == ((id - 1) % ItemsCount) % WorkersCount

\* Every result anywhere in the pipeline, from a result queue to the caller.
PipelineResults ==
    ToSet(delivered) \cup ToSet(caught) \cup ToSet(shared) \cup ToSet(hand)
        \cup UNION {ToSet(resQ[w]) : w \in Workers}

(***************************************************************************)
(* Spec 8: ventilate assigns the item at position i to worker i mod N, and *)
(* scenario 1: with four workers, worker 0 processes items 0 and 4.  Over  *)
(* every iteration, each item waiting in a worker's input queue, each item *)
(* a worker is handling, and each result anywhere up to the caller belongs *)
(* to the worker its position names.  It is about the index i of the loop *)
(* of ventilate (lines 223-227), which restarts at 0 on every call of      *)
(* _ventilate's loop while _ventilated_items keeps counting, and about     *)
(* the worker_id each publish_func closure captures (lines 157-160).       *)
(***************************************************************************)
InputsRouted == \A w \in Workers : \A k \in 1 .. Len(inQ[w]) : ItemWorker(inQ[w][k]) = w

HeldRouted == \A w \in Workers : wpc[w] # "get" => ItemWorker(held[w]) = w

ResultsRouted == \A r \in PipelineResults : ItemWorker(r.id) = r.w

RoutedByPosition == InputsRouted /\ HeldRouted /\ ResultsRouted

(***************************************************************************)
(* The strengthening of WorkerStreamOrdered that its proof uses            *)
(* (StreamProofs).  A result queue holds only its worker's results (the    *)
(* publish_func closure of lines 157-160); once get_results has caught an *)
(* exception it never gets again (lines 277-278); ventilation indices grow *)
(* (line 227), so a worker's input queue is increasing and every item or   *)
(* result in the pool has an index at most _ventilated_items; a worker's   *)
(* queued items come after everything it has published and after the item *)
(* it holds; and what a worker has published ranks below what it publishes *)
(* next for the item it holds, with no exception before it has exited.     *)
(***************************************************************************)
\* The rank of the next result worker w publishes for the item it holds.
NextRank(w) ==
    3 * held[w] + (CASE wpc[w] = "put_marker" -> 1
                     [] wpc[w] = "set_idle" -> 2
                     [] OTHER -> 0)

\* The results of worker w anywhere in the pipeline.
ResultsOf(w) == {r \in PipelineResults : r.w = w}

ResultQueuesOwned == \A u \in Workers : \A r \in ToSet(resQ[u]) : r.w = u

CaughtEndsGet == caught # <<>> => cpc \in {"stop_vent", "join_vent", "done"}

InputsIncreasing ==
    \A w \in Workers : \A i, j \in 1 .. Len(inQ[w]) : i < j => inQ[w][i] < inQ[w][j]

IdsVentilated ==
    /\ \A w \in Workers : \A k \in 1 .. Len(inQ[w]) : inQ[w][k] <= ventilated
    /\ \A w \in Workers : wpc[w] # "get" => held[w] <= ventilated
    /\ \A r \in PipelineResults : r.id <= ventilated

InputsFresh ==
    \A w \in Workers : \A k \in 1 .. Len(inQ[w]) :
        /\ \A r \in ResultsOf(w) : r.id < inQ[w][k]
        /\ wpc[w] # "get" => held[w] < inQ[w][k]

PublishedBelow ==
    \A w \in Workers : \A r \in ResultsOf(w) :
        /\ wpc[w] \notin {"get", "exited"} => Rank(r) < NextRank(w)
        /\ wpc[w] # "exited" => r.kind # "exc"

StreamInv ==
    /\ IInv
    /\ WorkerStreamOrdered
    /\ ResultQueuesOwned
    /\ CaughtEndsGet
    /\ InputsIncreasing
    /\ IdsVentilated
    /\ InputsFresh
    /\ PublishedBelow

(***************************************************************************)
(* Spec 4.4: completed() is true once the iteration budget is used up.     *)
(* Here: once the ventilation thread has ended, the ventilator reports     *)
(* completed.  It is about _ventilate never decrementing                   *)
(* _iterations_remaining (ventilator.py line 162).                         *)
(***************************************************************************)
CompletedAfterVentilation == VentilatorThreadEnded => VentilatorCompleted

(***************************************************************************)
(* Spec 7: a worker's exception is re-raised by get_results.  When the     *)
(* caller has taken an exception off the shared queue and get_results has *)
(* ended, it ended by raising that exception.  It is about stop() at       *)
(* lines 277 and 286-294.                                                  *)
(***************************************************************************)
ExceptionReraised ==
    (caught # <<>> /\ cpc = "done") => outcome = "worker_exception"

NoResultStrandedAfterMergerExit ==
    mpc = "exited" => \A w \in Workers : resQ[w] = <<>>

(***************************************************************************)
(* Spec 8: a ventilator constructed with iterations=k submits the item     *)
(* list k times.  Once the ventilation thread has ended, it has put        *)
(* iterations * len(items) items.  It is about the print at line 231.      *)
(***************************************************************************)
AllIterationsVentilated ==
    VentilatorThreadEnded => ventilated = MaxItems

(***************************************************************************)
(* Spec 4.4 and 5: stop() tells the ventilator to stop and the ventilator  *)
(* thread exits its loop on the signal.  Once _stop_requested is set, no   *)
(* further item is ventilated.  It is about _ventilate (ventilator.py      *)
(* lines 162-171) never reading _stop_requested.                           *)
(***************************************************************************)
NoVentilationAfterStop ==
    [][stopRequested => ventilated' = ventilated]_vars

(***************************************************************************)
(* Spec 8, scenario 1: once the items are consumed, the next get_results   *)
(* raises the end-of-stream condition, so a loop over get_results ends.    *)
(* Under fair scheduling the caller eventually finishes.  It is about      *)
(* completed() (lines 240-247) waiting for ConcurrentVentilator.completed  *)
(* (ventilator.py lines 120-122).                                          *)
(***************************************************************************)
GetResultsEventuallyEnds == <>(cpc = "done")

(***************************************************************************)
(* Spec 4.4: ConcurrentVentilator.stop() joins the ventilation thread      *)
(* (ventilator.py lines 178-179).  A thread inside stop(), the caller after *)
(* a worker's exception or another user thread, eventually gets past that  *)
(* join: the ventilation thread never waits on anything (the input queues  *)
(* are unbounded) and its loop is finite.                                  *)
(***************************************************************************)
StopJoinReturns ==
    /\ (cpc = "join_vent") ~> (cpc = "done")
    /\ (xpc = "join_vent") ~> (xpc = "raised")

(***************************************************************************)
(* Spec 4.1: get_results raises the end-of-stream condition when the       *)
(* completion predicate holds, and it holds for a drained pool with no     *)
(* ventilator.  When get_results has ended before any item was ventilated  *)
(* and without a worker exception, it ended with end of stream.  It is     *)
(* about the print at line 241.                                            *)
(***************************************************************************)
EmptyPoolEndsStream ==
    (cpc = "done" /\ ventilated = 0 /\ caught = <<>>) => outcome = "end_of_stream"

(***************************************************************************)
(* Spec 7 and the docstring of get_results (lines 252-259): end of stream  *)
(* is raised when no more results are anticipated and nothing remains      *)
(* queued.  The step in which get_results decides end of stream is taken   *)
(* while no result is still to come from the pool: every input queue and  *)
(* result queue is empty, no worker holds an item, and the round-robin     *)
(* consumer holds nothing.  It is about the lock-free loop of              *)
(* all_workers_done (lines 234-238), the gap between a worker's get and    *)
(* _set_worker_busy (lines 65-67), and the consumer's item between its     *)
(* get and its put (lines 389-393), none of which completed() sees.        *)
(***************************************************************************)
EndOfStreamNothingInFlight ==
    [][outcome' = "end_of_stream" /\ outcome # "end_of_stream" =>
          /\ hand = <<>>
          /\ \A w \in Workers : /\ inQ[w] = <<>>
                               /\ resQ[w] = <<>>
                               /\ wpc[w] \in {"get", "exited"}]_vars
=============================================================================
