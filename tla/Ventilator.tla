------------------------------ MODULE Ventilator ------------------------------
(***************************************************************************)
(* The ventilation thread of ConcurrentVentilator (ventilator.py lines     *)
(* 135-171) together with ThreadPool.ventilate (thread_pool.py lines       *)
(* 213-231), which that thread calls once per iteration.                   *)
(*                                                                         *)
(* _iterations_remaining is assigned in __init__ (line 102) and in reset() *)
(* and never decremented: the loop of line 162 ranges over it without      *)
(* changing it.  The per-iteration shuffle (lines 163-169) permutes dicts  *)
(* the model does not distinguish, since an item is named by its          *)
(* ventilation index.                                                      *)
(***************************************************************************)
EXTENDS PoolState

\* ventilator.py line 102 (iterations is a positive int in this model).
IterationsRemaining == Iterations

\* ConcurrentVentilator.completed(), ventilator.py lines 120-122.
VentilatorCompleted ==
    \/ stopRequested
    \/ IterationsRemaining = 0
    \/ ItemsCount = 0

\* ConcurrentVentilator.__init__ (ventilator.py lines 101-109): no thread
\* yet, no stop requested.
VentilatorInit ==
    /\ vpc = "unstarted"
    /\ vpos = 0
    /\ viter = 0
    /\ stopRequested = FALSE

\* ConcurrentVentilator.start (lines 111-115): a new thread runs _ventilate
\* from its first iteration and its first item.
VentilatorStart ==
    /\ vpc' = "call"
    /\ vpos' = 0
    /\ viter' = 0

\* The ventilation thread has ended, normally or by an exception.
VentilatorThreadEnded == vpc \in {"done", "crashed"}

\* Mutant of VentilatePut: the worker is chosen by the pool-wide counter
\* instead of the item's position in this call.
VentilatePutByCounter ==
    /\ vpc = "call"
    /\ vpos < ItemsCount
    /\ LET wid == ventilated % WorkersCount
       IN  inQ' = [inQ EXCEPT ![wid] = Append(@, ventilated + 1)]
    /\ vpos' = vpos + 1
    /\ ventilated' = ventilated + 1
    /\ UNCHANGED <<vpc, viter, stopRequested, attached, held, status, wpc, resQ,
                   shared, mergerVars, callerVars>>

\* Mutant of VentilatePut: the item is put at the front of the worker's
\* queue, as with a LIFO queue.
VentilatePutFront ==
    /\ vpc = "call"
    /\ vpos < ItemsCount
    /\ LET wid == vpos % WorkersCount
       IN  inQ' = [inQ EXCEPT ![wid] = <<ventilated + 1>> \o @]
    /\ ventilated' = ventilated + 1
    /\ vpos' = vpos + 1
    /\ UNCHANGED <<vpc, viter, stopRequested, attached, held, status, wpc, resQ, shared,
                   mergerVars, callerVars>>

(***************************************************************************)
(* One pass of the loop of ventilate (thread_pool.py lines 223-227): the   *)
(* i-th item of the call goes to worker i % workers_count, and the         *)
(* counter is incremented.                                                 *)
(***************************************************************************)
VentilatePut ==
    /\ vpc = "call"
    /\ vpos < ItemsCount
    /\ LET wid == vpos % WorkersCount
       IN  inQ' = [inQ EXCEPT ![wid] = Append(@, ventilated + 1)]
    /\ ventilated' = ventilated + 1
    /\ vpos' = vpos + 1
    /\ UNCHANGED <<vpc, viter, stopRequested, attached, held, status, wpc, resQ, shared,
                   mergerVars, callerVars>>

\* Mutant of VentilateCallEnd: the last-iteration test is off by one.
VentilateCallEndOffByOne ==
    /\ vpc = "call"
    /\ vpos = ItemsCount
    /\ \/ /\ WorkersCount < 4
          /\ vpc' = "crashed"
          /\ UNCHANGED <<vpos, viter>>
       \/ /\ WorkersCount >= 4
          /\ viter + 1 < IterationsRemaining
          /\ viter' = viter + 1
          /\ vpos' = 0
          /\ UNCHANGED vpc
       \/ /\ WorkersCount >= 4
          /\ viter + 1 > IterationsRemaining
          /\ vpc' = "done"
          /\ UNCHANGED <<vpos, viter>>
    /\ UNCHANGED <<ventilated, stopRequested, attached, workerVars, resQ, shared,
                   mergerVars, callerVars>>

(***************************************************************************)
(* The end of a ventilate call and of the iteration around it.  Line 231   *)
(* prints the lengths of _ventilator_queues[0..3]: with fewer than four    *)
(* workers this raises IndexError, which ends the ventilation thread.      *)
(* Otherwise _ventilate (ventilator.py lines 162-171) starts the next      *)
(* iteration, or the thread returns after the last one.                    *)
(***************************************************************************)
VentilateCallEnd ==
    /\ vpc = "call"
    /\ vpos = ItemsCount
    /\ \/ /\ WorkersCount < 4
          /\ vpc' = "crashed"
          /\ UNCHANGED <<vpos, viter>>
       \/ /\ WorkersCount >= 4
          /\ viter + 1 < IterationsRemaining
          /\ viter' = viter + 1
          /\ vpos' = 0
          /\ UNCHANGED vpc
       \/ /\ WorkersCount >= 4
          /\ viter + 1 >= IterationsRemaining
          /\ vpc' = "done"
          /\ UNCHANGED <<vpos, viter>>
    /\ UNCHANGED <<ventilated, stopRequested, attached, workerVars, resQ, shared,
                   mergerVars, callerVars>>

VentilatorNext == VentilatePut \/ VentilateCallEnd
=============================================================================
