----------------------------- MODULE WorkerThread -----------------------------
(***************************************************************************)
(* WorkerThread.run (thread_pool.py lines 54-85), one per worker id, with  *)
(* the status setters it calls and the stop-aware put behind publish_func. *)
(*                                                                         *)
(* stop_event: ThreadPool.stop() calls self._round_robin_thread.stop()     *)
(* before self._stop_event.set() (lines 292-294), and a threading.Thread   *)
(* has no stop() method, so once start() has created that thread stop()   *)
(* raises AttributeError and the event is never set.  Every test of        *)
(* stop_event a worker makes (line 60, line 333) is therefore false and    *)
(* the WorkerTerminationRequested path (lines 76-77) cannot be taken.      *)
(*                                                                         *)
(* The timeout of the input get (lines 72-75) sets a status that is        *)
(* already idle at that point, so it is a stuttering step and needs no     *)
(* action.                                                                 *)
(***************************************************************************)
EXTENDS PoolState

\* The record that worker w publishes for the item it holds.
Emit(w, kind) == [w |-> w, id |-> held[w], kind |-> kind]

\* Lines 58-65: the loop head, then a get from the worker's input queue.
WorkerGet(w) ==
    /\ wpc[w] = "get"
    /\ inQ[w] # <<>>
    /\ held' = [held EXCEPT ![w] = Head(inQ[w])]
    /\ inQ' = [inQ EXCEPT ![w] = Tail(@)]
    /\ wpc' = [wpc EXCEPT ![w] = "picked"]
    /\ UNCHANGED <<status, resQ, shared, mergerVars, ventVars, callerVars>>

\* Lines 66-67 with _set_worker_busy (lines 201-203).
WorkerSetBusy(w) ==
    /\ wpc[w] = "picked"
    /\ status' = [status EXCEPT ![w] = TRUE]
    /\ wpc' = [wpc EXCEPT ![w] = "process"]
    /\ UNCHANGED <<inQ, held, resQ, shared, mergerVars, ventVars, callerVars>>

(***************************************************************************)
(* Line 68: worker_impl.process on the item.  The implementation is      *)
(* external: it publishes a result through publish_func and returns, or   *)
(* raises.                                                                *)
(***************************************************************************)
WorkerProcess(w) ==
    /\ wpc[w] = "process"
    /\ \/ /\ "publish" \in ProcessBehaviours
          /\ wpc' = [wpc EXCEPT ![w] = "put_data"]
       \/ /\ "raise" \in ProcessBehaviours
          /\ wpc' = [wpc EXCEPT ![w] = "put_exc"]
    /\ UNCHANGED <<inQ, held, status, resQ, shared, mergerVars, ventVars, callerVars>>

(***************************************************************************)
(* _stop_aware_put (lines 320-334) as called by publish_func: put with a   *)
(* short timeout, retried while the queue is full (the stop_event test     *)
(* between retries is always false, see above).  A failed attempt changes  *)
(* nothing, so only the successful put is a step.  The data result is put  *)
(* from inside process (line 68), the marker at line 69.                   *)
(***************************************************************************)
StopAwarePut(w, kind, from, to) ==
    /\ wpc[w] = from
    /\ ~Full(resQ[w], ResultsQueueSize)
    /\ resQ' = [resQ EXCEPT ![w] = Append(@, Emit(w, kind))]
    /\ wpc' = [wpc EXCEPT ![w] = to]
    /\ UNCHANGED <<inQ, held, status, shared, mergerVars, ventVars, callerVars>>

WorkerPublishData(w) == StopAwarePut(w, "data", "put_data", "put_marker")

WorkerPublishMarker(w) == StopAwarePut(w, "marker", "put_marker", "set_idle")

\* Lines 70-71 with _set_worker_idle (lines 205-207); back to the loop head.
WorkerSetIdle(w) ==
    /\ wpc[w] = "set_idle"
    /\ status' = [status EXCEPT ![w] = FALSE]
    /\ held' = [held EXCEPT ![w] = 0]
    /\ wpc' = [wpc EXCEPT ![w] = "get"]
    /\ UNCHANGED <<inQ, resQ, shared, mergerVars, ventVars, callerVars>>

\* Mutant of WorkerPutException: the break at line 83 is missing.
WorkerPutExceptionNoBreak(w) ==
    /\ wpc[w] = "put_exc"
    /\ ~Full(resQ[w], ResultsQueueSize)
    /\ resQ' = [resQ EXCEPT ![w] = Append(@, Emit(w, "exc"))]
    /\ status' = [status EXCEPT ![w] = FALSE]
    /\ held' = [held EXCEPT ![w] = 0]
    /\ wpc' = [wpc EXCEPT ![w] = "get"]
    /\ UNCHANGED <<inQ, shared, mergerVars, ventVars, callerVars>>

(***************************************************************************)
(* Lines 78-83: process raised.  The exception object is put with a plain  *)
(* blocking put (no timeout, no stop test) and the loop breaks.  The       *)
(* status is left busy: _set_worker_idle at line 71 is skipped.            *)
(***************************************************************************)
WorkerPutException(w) ==
    /\ wpc[w] = "put_exc"
    /\ ~Full(resQ[w], ResultsQueueSize)
    /\ resQ' = [resQ EXCEPT ![w] = Append(@, Emit(w, "exc"))]
    /\ wpc' = [wpc EXCEPT ![w] = "exited"]
    /\ UNCHANGED <<inQ, held, status, shared, mergerVars, ventVars, callerVars>>

WorkerNext(w) ==
    \/ WorkerGet(w)
    \/ WorkerSetBusy(w)
    \/ WorkerProcess(w)
    \/ WorkerPublishData(w)
    \/ WorkerPublishMarker(w)
    \/ WorkerSetIdle(w)
    \/ WorkerPutException(w)
=============================================================================
