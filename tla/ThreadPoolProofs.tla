--------------------------- MODULE ThreadPoolProofs ---------------------------
(***************************************************************************)
(* Proofs about ThreadPool for every value of the constants that           *)
(* PoolAssumption allows: the type invariant, through its inductive        *)
(* strengthening IInv (ThreadPool), which adds the facts TypeOK needs and  *)
(* cannot carry from one step to the next by itself:                       *)
(*   - VentilationCounted: the next item id the ventilator hands out is    *)
(*     within 1 .. iterations * len(items);                                *)
(*   - HeldWhileHandling: the record a worker publishes names an item;     *)
(*   - HandWhileForwarding: the consumer forwards a result it holds;       *)
(*   - VentilatorStartedByStart: start() finds the counter at zero.        *)
(* One lemma per action shows that the action keeps IInv; each proves the  *)
(* new values of the variables the action changes and leaves the rest to   *)
(* UNCHANGED.                                                              *)
(***************************************************************************)
EXTENDS ThreadPool, TLAPS

USE PoolAssumption

\* The arithmetic fact behind VentilationCounted: the counter stays in range.
LEMMA CounterBound ==
    ASSUME NEW i \in 0 .. (Iterations - 1), NEW p \in 0 .. ItemsCount
    PROVE  i * ItemsCount + p \in 0 .. MaxItems
<1>1. i * ItemsCount <= (Iterations - 1) * ItemsCount
  BY SMT
<1>. QED  BY <1>1 DEF MaxItems

\* (cur + 1) % workers_count is a worker id.
LEMMA NextWorker ==
    ASSUME NEW c \in Workers
    PROVE  (c + 1) % WorkersCount \in Workers
BY DEF Workers

LEMMA InitIInv == Init => IInv
BY DEF Init, VentilatorInit, IInv, TypeOK, VentilationCounted, HeldWhileHandling,
       HandWhileForwarding, VentilatorStartedByStart, Workers, ItemIds,
       WorkerPcs, MergerPcs, VentPcs, CallerPcs, StopperPcs, Outcomes, MaxItems

-----------------------------------------------------------------------------
(* The worker threads.                                                     *)

LEMMA WorkerGetIInv ==
    ASSUME IInv, NEW w \in Workers, WorkerGet(w)
    PROVE  IInv'
<1>. USE DEF IInv, WorkerGet
<1>1. Head(inQ[w]) \in ItemIds
  BY DEF TypeOK
<1>2. inQ' \in [Workers -> Seq(ItemIds)]
  BY DEF TypeOK
<1>3. held' \in [Workers -> {0} \cup ItemIds]
  BY <1>1 DEF TypeOK
<1>4. wpc' \in [Workers -> WorkerPcs]
  BY DEF TypeOK, WorkerPcs
<1>5. HeldWhileHandling'
  BY <1>1 DEF TypeOK, HeldWhileHandling
<1>6. UNCHANGED <<status, resQ, shared, mpc, cur, hand, vpc, vpos, viter,
                  ventilated, stopRequested, attached, cpc, scan, outcome, delivered, caught, xpc>>
  BY DEF mergerVars, ventVars, callerVars
<1>. QED  BY <1>2, <1>3, <1>4, <1>5, <1>6
          DEF TypeOK, VentilationCounted, HandWhileForwarding, VentilatorStartedByStart

LEMMA WorkerSetBusyIInv ==
    ASSUME IInv, NEW w \in Workers, WorkerSetBusy(w)
    PROVE  IInv'
<1>. USE DEF IInv, WorkerSetBusy
<1>1. status' \in [Workers -> BOOLEAN]
  BY DEF TypeOK
<1>2. wpc' \in [Workers -> WorkerPcs]
  BY DEF TypeOK, WorkerPcs
<1>3. HeldWhileHandling'
  BY DEF TypeOK, HeldWhileHandling
<1>4. UNCHANGED <<inQ, held, resQ, shared, mpc, cur, hand, vpc, vpos, viter,
                  ventilated, stopRequested, attached, cpc, scan, outcome, delivered, caught, xpc>>
  BY DEF mergerVars, ventVars, callerVars
<1>. QED  BY <1>1, <1>2, <1>3, <1>4
          DEF TypeOK, VentilationCounted, HandWhileForwarding, VentilatorStartedByStart

LEMMA WorkerProcessIInv ==
    ASSUME IInv, NEW w \in Workers, WorkerProcess(w)
    PROVE  IInv'
<1>. USE DEF IInv, WorkerProcess
<1>1. wpc' \in [Workers -> WorkerPcs]
  BY DEF TypeOK, WorkerPcs
<1>2. HeldWhileHandling'
  BY DEF TypeOK, HeldWhileHandling
<1>3. UNCHANGED <<inQ, held, status, resQ, shared, mpc, cur, hand, vpc, vpos,
                  viter, ventilated, stopRequested, attached, cpc, scan, outcome, delivered,
                  caught, xpc>>
  BY DEF mergerVars, ventVars, callerVars
<1>. QED  BY <1>1, <1>2, <1>3
          DEF TypeOK, VentilationCounted, HandWhileForwarding, VentilatorStartedByStart

\* A put into a worker's result queue from any place but the loop head.
LEMMA StopAwarePutIInv ==
    ASSUME IInv, NEW w \in Workers, NEW kind \in Kinds,
           NEW from \in WorkerPcs \ {"get"}, NEW to \in WorkerPcs \ {"get"},
           StopAwarePut(w, kind, from, to)
    PROVE  IInv'
<1>. USE DEF IInv, StopAwarePut
<1>1. Emit(w, kind) \in Result
  BY DEF TypeOK, HeldWhileHandling, Emit, Result
<1>2. resQ' \in [Workers -> Seq(Result)]
  BY <1>1 DEF TypeOK
<1>3. \A v \in Workers : Len(resQ'[v]) <= ResultsQueueSize
  BY DEF TypeOK, Full
<1>4. wpc' \in [Workers -> WorkerPcs]
  BY DEF TypeOK
<1>5. HeldWhileHandling'
  BY DEF TypeOK, HeldWhileHandling
<1>6. UNCHANGED <<inQ, held, status, shared, mpc, cur, hand, vpc, vpos, viter,
                  ventilated, stopRequested, attached, cpc, scan, outcome, delivered, caught, xpc>>
  BY DEF mergerVars, ventVars, callerVars
<1>. QED  BY <1>2, <1>3, <1>4, <1>5, <1>6
          DEF TypeOK, VentilationCounted, HandWhileForwarding, VentilatorStartedByStart

LEMMA WorkerSetIdleIInv ==
    ASSUME IInv, NEW w \in Workers, WorkerSetIdle(w)
    PROVE  IInv'
<1>. USE DEF IInv, WorkerSetIdle
<1>1. status' \in [Workers -> BOOLEAN]
  BY DEF TypeOK
<1>2. held' \in [Workers -> {0} \cup ItemIds]
  BY DEF TypeOK
<1>3. wpc' \in [Workers -> WorkerPcs]
  BY DEF TypeOK, WorkerPcs
<1>4. HeldWhileHandling'
  BY DEF TypeOK, HeldWhileHandling
<1>5. UNCHANGED <<inQ, resQ, shared, mpc, cur, hand, vpc, vpos, viter,
                  ventilated, stopRequested, attached, cpc, scan, outcome, delivered, caught, xpc>>
  BY DEF mergerVars, ventVars, callerVars
<1>. QED  BY <1>1, <1>2, <1>3, <1>4, <1>5
          DEF TypeOK, VentilationCounted, HandWhileForwarding, VentilatorStartedByStart

LEMMA WorkerStep ==
    ASSUME IInv, NEW w \in Workers, WorkerNext(w)
    PROVE  IInv'
<1>1. CASE WorkerPublishData(w)
  BY <1>1, StopAwarePutIInv DEF WorkerPublishData, Kinds, WorkerPcs
<1>2. CASE WorkerPublishMarker(w)
  BY <1>2, StopAwarePutIInv DEF WorkerPublishMarker, Kinds, WorkerPcs
<1>3. CASE WorkerPutException(w)
  \* The blocking put of line 82 makes the same step as a stop-aware put.
  <2>1. StopAwarePut(w, "exc", "put_exc", "exited")
    BY <1>3 DEF WorkerPutException, StopAwarePut
  <2>. QED  BY <2>1, StopAwarePutIInv DEF Kinds, WorkerPcs
<1>. QED  BY <1>1, <1>2, <1>3, WorkerGetIInv, WorkerSetBusyIInv,
             WorkerProcessIInv, WorkerSetIdleIInv DEF WorkerNext

-----------------------------------------------------------------------------
(* The round-robin consumer.                                               *)

LEMMA MergerLoopIInv ==
    ASSUME IInv, MergerLoop
    PROVE  IInv'
<1>. USE DEF IInv, MergerLoop
<1>1. mpc' \in MergerPcs /\ mpc' # "forward"
  BY DEF MergerPcs
<1>2. cur' \in Workers
  BY NextWorker DEF TypeOK
<1>3. hand = <<>>
  BY DEF HandWhileForwarding
<1>4. UNCHANGED <<inQ, held, status, wpc, resQ, shared, hand, vpc, vpos, viter,
                  ventilated, stopRequested, attached, cpc, scan, outcome, delivered, caught, xpc>>
  BY DEF workerVars, ventVars, callerVars
<1>. QED  BY <1>1, <1>2, <1>3, <1>4
          DEF TypeOK, VentilationCounted, HeldWhileHandling, HandWhileForwarding,
              VentilatorStartedByStart

LEMMA MergerTakeIInv ==
    ASSUME IInv, MergerTake
    PROVE  IInv'
<1>. USE DEF IInv
<1>1. CASE resQ[cur] # <<>>
  <2>1. /\ hand' = <<Head(resQ[cur])>>
        /\ resQ' = [resQ EXCEPT ![cur] = Tail(resQ[cur])]
        /\ mpc' = "forward"
    BY <1>1 DEF MergerTake
  <2>2. Head(resQ[cur]) \in Result /\ cur \in Workers
    BY <1>1 DEF TypeOK
  <2>3. hand' \in Seq(Result) /\ Len(hand') = 1
    BY <2>1, <2>2
  <2>4. resQ' \in [Workers -> Seq(Result)]
        /\ \A v \in Workers : Len(resQ'[v]) <= ResultsQueueSize
    BY <1>1, <2>1, <2>2 DEF TypeOK
  <2>5. UNCHANGED <<inQ, held, status, wpc, shared, cur, vpc, vpos, viter,
                    ventilated, stopRequested, attached, cpc, scan, outcome, delivered, caught, xpc>>
    BY <1>1 DEF MergerTake, workerVars, ventVars, callerVars
  <2>. QED  BY <2>1, <2>3, <2>4, <2>5
            DEF TypeOK, VentilationCounted, HeldWhileHandling, HandWhileForwarding,
                VentilatorStartedByStart, MergerPcs
<1>2. CASE resQ[cur] = <<>>
  <2>1. cur' \in Workers
    BY <1>2, NextWorker DEF MergerTake, TypeOK
  <2>2. mpc' = "loop" /\ hand = <<>>
    BY <1>2 DEF MergerTake, HandWhileForwarding
  <2>3. UNCHANGED <<inQ, held, status, wpc, resQ, shared, hand, vpc, vpos, viter,
                    ventilated, stopRequested, attached, cpc, scan, outcome, delivered, caught, xpc>>
    BY <1>2 DEF MergerTake, workerVars, ventVars, callerVars
  <2>. QED  BY <2>1, <2>2, <2>3
            DEF TypeOK, VentilationCounted, HeldWhileHandling, HandWhileForwarding,
                VentilatorStartedByStart, MergerPcs
<1>. QED  BY <1>1, <1>2

LEMMA MergerForwardIInv ==
    ASSUME IInv, MergerForward
    PROVE  IInv'
<1>. USE DEF IInv, MergerForward
<1>1. Head(hand) \in Result
  BY DEF TypeOK, HandWhileForwarding
<1>2. shared' \in Seq(Result) /\ Len(shared') <= SharedQueueSize
  <2>1. CASE ~Full(shared, SharedQueueSize)
    <3>1. shared' = Append(shared, Head(hand))
      BY <2>1 DEF Full
    <3>. QED  BY <1>1, <2>1, <3>1 DEF TypeOK, Full
  <2>2. CASE Full(shared, SharedQueueSize)
    BY <2>2 DEF TypeOK
  <2>. QED  BY <2>1, <2>2
<1>3. cur' \in Workers
  BY NextWorker DEF TypeOK
<1>4. hand' = <<>> /\ mpc' = "loop"
  OBVIOUS
<1>5. UNCHANGED <<inQ, held, status, wpc, resQ, vpc, vpos, viter,
                  ventilated, stopRequested, attached, cpc, scan, outcome, delivered, caught, xpc>>
  BY DEF workerVars, ventVars, callerVars
<1>. QED  BY <1>2, <1>3, <1>4, <1>5
          DEF TypeOK, VentilationCounted, HeldWhileHandling, HandWhileForwarding,
              VentilatorStartedByStart, MergerPcs

LEMMA MergerStep ==
    ASSUME IInv, MergerNext
    PROVE  IInv'
BY MergerLoopIInv, MergerTakeIInv, MergerForwardIInv DEF MergerNext

-----------------------------------------------------------------------------
(* The ventilation thread.                                                 *)

LEMMA VentilatePutIInv ==
    ASSUME IInv, VentilatePut
    PROVE  IInv'
<1>. USE DEF IInv, VentilatePut
<1>1. ventilated + 1 = viter * ItemsCount + (vpos + 1)
  BY DEF VentilationCounted, TypeOK
<1>2. ventilated + 1 \in ItemIds /\ ventilated' \in 0 .. MaxItems
  <2>1. vpos + 1 \in 0 .. ItemsCount /\ viter \in 0 .. (Iterations - 1)
    BY DEF TypeOK
  <2>2. viter * ItemsCount + (vpos + 1) \in 0 .. MaxItems
    BY <2>1, CounterBound
  <2>3. ventilated \in Nat
    BY DEF TypeOK
  <2>. QED  BY <1>1, <2>2, <2>3 DEF ItemIds
<1>3. vpos % WorkersCount \in Workers
  BY DEF TypeOK, Workers
<1>4. inQ' \in [Workers -> Seq(ItemIds)]
  BY <1>2, <1>3 DEF TypeOK
<1>5. vpos' \in 0 .. ItemsCount
  BY DEF TypeOK
<1>6. VentilationCounted'
  BY <1>1 DEF VentilationCounted
<1>7. UNCHANGED <<held, status, wpc, resQ, shared, mpc, cur, hand, vpc, viter,
                  stopRequested, attached, cpc, scan, outcome, delivered, caught, xpc>>
  BY DEF mergerVars, callerVars
<1>. QED  BY <1>2, <1>4, <1>5, <1>6, <1>7
          DEF TypeOK, HeldWhileHandling, HandWhileForwarding, VentilatorStartedByStart

LEMMA VentilateCallEndIInv ==
    ASSUME IInv, VentilateCallEnd
    PROVE  IInv'
<1>. USE DEF IInv, VentilateCallEnd
<1>1. vpc' \in VentPcs \ {"unstarted"} /\ vpc # "unstarted"
  BY DEF VentPcs
<1>2. viter' \in 0 .. (Iterations - 1) /\ vpos' \in 0 .. ItemsCount
  BY DEF TypeOK, IterationsRemaining
<1>3. VentilationCounted'
  BY DEF TypeOK, VentilationCounted
<1>4. UNCHANGED <<inQ, held, status, wpc, resQ, shared, mpc, cur, hand,
                  ventilated, stopRequested, attached, cpc, scan, outcome, delivered, caught, xpc>>
  BY DEF workerVars, mergerVars, callerVars
<1>. QED  BY <1>1, <1>2, <1>3, <1>4
          DEF TypeOK, HeldWhileHandling, HandWhileForwarding, VentilatorStartedByStart

LEMMA VentilatorStep ==
    ASSUME IInv, VentilatorNext
    PROVE  IInv'
BY VentilatePutIInv, VentilateCallEndIInv DEF VentilatorNext

-----------------------------------------------------------------------------
(* The caller of get_results and the user thread calling stop().           *)

LEMMA CallerStartVentilatorIInv ==
    ASSUME IInv, CallerStartVentilator
    PROVE  IInv'
<1>. USE DEF IInv
<1>1. ventilated = 0
  BY DEF CallerStartVentilator, VentilatorStartedByStart, VentilationCounted, TypeOK
<1>2. cpc' = "check" /\ attached' \in BOOLEAN
  BY DEF CallerStartVentilator
<1>3. /\ vpc' \in VentPcs /\ vpos' \in 0 .. ItemsCount
      /\ viter' \in 0 .. (Iterations - 1)
      /\ ventilated' = viter' * ItemsCount + vpos'
      /\ vpc' = "unstarted" => vpos' = 0 /\ viter' = 0
  <2>1. CASE vpc' = "call" /\ vpos' = 0 /\ viter' = 0 /\ ventilated' = ventilated
    BY <1>1, <2>1 DEF VentPcs
  <2>2. CASE UNCHANGED <<vpc, vpos, viter, ventilated>>
    BY <2>2 DEF TypeOK, VentilationCounted, VentilatorStartedByStart
  <2>. QED  BY <2>1, <2>2 DEF CallerStartVentilator, VentilatorStart
<1>4. UNCHANGED <<inQ, held, status, wpc, resQ, shared, mpc, cur, hand,
                  ventilated, stopRequested, scan, outcome, delivered, caught, xpc>>
  BY DEF CallerStartVentilator, workerVars, mergerVars
<1>. QED  BY <1>2, <1>3, <1>4
          DEF TypeOK, VentilationCounted, HeldWhileHandling, HandWhileForwarding,
              VentilatorStartedByStart, CallerPcs

LEMMA CallerCheckIInv ==
    ASSUME IInv, CallerCheck
    PROVE  IInv'
<1>. USE DEF IInv, CallerCheck
<1>1. cpc' \in CallerPcs /\ cpc' # "start_vent" /\ cpc # "start_vent"
  BY DEF CallerPcs
<1>2. outcome' \in Outcomes
  BY DEF TypeOK, Outcomes
<1>3. scan' \in 0 .. WorkersCount
  BY DEF TypeOK
<1>4. UNCHANGED <<inQ, held, status, wpc, resQ, shared, mpc, cur, hand, vpc,
                  vpos, viter, ventilated, stopRequested, attached, delivered,
                  caught, xpc>>
  BY DEF workerVars, mergerVars, ventVars
<1>. QED  BY <1>1, <1>2, <1>3, <1>4
          DEF TypeOK, VentilationCounted, HeldWhileHandling, HandWhileForwarding,
              VentilatorStartedByStart

LEMMA CallerGetIInv ==
    ASSUME IInv, CallerGet
    PROVE  IInv'
<1>. USE DEF IInv, CallerGet
<1>1. shared # <<>> => Head(shared) \in Result /\ Tail(shared) \in Seq(Result)
                        /\ Len(Tail(shared)) <= SharedQueueSize
  BY DEF TypeOK
<1>2. /\ delivered' \in Seq(Result)
      /\ caught' \in Seq(Result) /\ Len(caught') <= 1
      /\ shared' \in Seq(Result) /\ Len(shared') <= SharedQueueSize
  <2>1. CASE shared # <<>> /\ Head(shared).kind # "exc"
    <3>1. /\ delivered' = Append(delivered, Head(shared))
          /\ shared' = Tail(shared) /\ caught' = caught
      BY <2>1
    <3>. QED  BY <1>1, <2>1, <3>1 DEF TypeOK
  <2>2. CASE shared # <<>> /\ Head(shared).kind = "exc"
    <3>1. /\ caught' = <<Head(shared)>>
          /\ shared' = Tail(shared) /\ delivered' = delivered
      BY <2>2
    <3>. QED  BY <1>1, <2>2, <3>1 DEF TypeOK
  <2>3. CASE shared = <<>>
    BY <2>3 DEF TypeOK
  <2>. QED  BY <2>1, <2>2, <2>3
<1>3. cpc' \in CallerPcs /\ cpc' # "start_vent" /\ cpc # "start_vent"
  BY DEF CallerPcs
<1>4. UNCHANGED <<inQ, held, status, wpc, resQ, mpc, cur, hand, vpc, vpos,
                  viter, ventilated, stopRequested, attached, scan, outcome, xpc>>
  BY DEF workerVars, mergerVars, ventVars
<1>. QED  BY <1>2, <1>3, <1>4
          DEF TypeOK, VentilationCounted, HeldWhileHandling, HandWhileForwarding,
              VentilatorStartedByStart

\* The steps of stop() that change only a thread's place, the outcome and
\* the ventilator's stop flag.
LEMMA StopStepsIInv ==
    ASSUME IInv,
           \/ CallerStopVentilator \/ CallerJoinVentilator
           \/ StopperStopVentilator \/ StopperJoinVentilator
           \/ StopperWithoutVentilator
    PROVE  IInv'
<1>. USE DEF IInv
<1>1. CASE CallerStopVentilator
  <2>1. UNCHANGED <<inQ, held, status, wpc, resQ, shared, mpc, cur, hand, vpc,
                    vpos, viter, ventilated, attached, scan, outcome, delivered,
                    caught, xpc>>
    BY <1>1 DEF CallerStopVentilator, workerVars, mergerVars
  <2>2. cpc' \in CallerPcs /\ cpc' # "start_vent" /\ cpc # "start_vent"
        /\ stopRequested' \in BOOLEAN
    BY <1>1 DEF CallerStopVentilator, CallerPcs
  <2>. QED  BY <2>1, <2>2
            DEF TypeOK, VentilationCounted, HeldWhileHandling, HandWhileForwarding,
                VentilatorStartedByStart
<1>2. CASE CallerJoinVentilator
  <2>1. UNCHANGED <<inQ, held, status, wpc, resQ, shared, mpc, cur, hand, vpc,
                    vpos, viter, ventilated, stopRequested, attached, scan,
                    delivered, caught, xpc>>
    BY <1>2 DEF CallerJoinVentilator, workerVars, mergerVars, ventVars
  <2>2. cpc' \in CallerPcs /\ cpc' # "start_vent" /\ cpc # "start_vent"
        /\ outcome' \in Outcomes
    BY <1>2 DEF CallerJoinVentilator, CallerPcs, Outcomes
  <2>. QED  BY <2>1, <2>2
            DEF TypeOK, VentilationCounted, HeldWhileHandling, HandWhileForwarding,
                VentilatorStartedByStart
<1>3. CASE StopperStopVentilator
  <2>1. UNCHANGED <<inQ, held, status, wpc, resQ, shared, mpc, cur, hand, vpc,
                    vpos, viter, ventilated, attached, cpc, scan, outcome,
                    delivered, caught>>
    BY <1>3 DEF StopperStopVentilator, workerVars, mergerVars
  <2>2. xpc' \in StopperPcs /\ stopRequested' \in BOOLEAN
    BY <1>3 DEF StopperStopVentilator, StopperPcs
  <2>. QED  BY <2>1, <2>2
            DEF TypeOK, VentilationCounted, HeldWhileHandling, HandWhileForwarding,
                VentilatorStartedByStart
<1>4. CASE StopperJoinVentilator
  <2>1. UNCHANGED <<inQ, held, status, wpc, resQ, shared, mpc, cur, hand, vpc,
                    vpos, viter, ventilated, stopRequested, attached, cpc, scan, outcome,
                    delivered, caught>>
    BY <1>4 DEF StopperJoinVentilator, workerVars, mergerVars, ventVars
  <2>2. xpc' \in StopperPcs
    BY <1>4 DEF StopperJoinVentilator, StopperPcs
  <2>. QED  BY <2>1, <2>2
            DEF TypeOK, VentilationCounted, HeldWhileHandling, HandWhileForwarding,
                VentilatorStartedByStart
<1>5. CASE StopperWithoutVentilator
  <2>1. UNCHANGED <<inQ, held, status, wpc, resQ, shared, mpc, cur, hand, vpc,
                    vpos, viter, ventilated, stopRequested, attached, cpc, scan,
                    outcome, delivered, caught>>
    BY <1>5 DEF StopperWithoutVentilator, workerVars, mergerVars, ventVars
  <2>2. xpc' \in StopperPcs
    BY <1>5 DEF StopperWithoutVentilator, StopperPcs
  <2>. QED  BY <2>1, <2>2
            DEF TypeOK, VentilationCounted, HeldWhileHandling, HandWhileForwarding,
                VentilatorStartedByStart
<1>. QED  BY <1>1, <1>2, <1>3, <1>4, <1>5

LEMMA StepIInv == IInv /\ [Next]_vars => IInv'
<1> SUFFICES ASSUME IInv, [Next]_vars PROVE IInv'
  OBVIOUS
<1>1. CASE UNCHANGED vars
  BY <1>1 DEF vars, IInv, TypeOK, VentilationCounted, HeldWhileHandling,
              HandWhileForwarding, VentilatorStartedByStart
<1>2. CASE \E w \in Workers : WorkerNext(w)
  BY <1>2, WorkerStep
<1>3. CASE CallerNext \/ StopperNext
  BY <1>3, CallerStartVentilatorIInv, CallerCheckIInv, CallerGetIInv,
     StopStepsIInv DEF CallerNext, StopperNext
<1>. QED  BY <1>1, <1>2, <1>3, MergerStep, VentilatorStep DEF Next

(***************************************************************************)
(* The inductive invariant holds in every reachable state: the ventilation *)
(* counter of ThreadPool.ventilate (line 227) equals the number of items   *)
(* _ventilate has put, a worker thread between its get (line 65) and       *)
(* _set_worker_idle holds an item, the round-robin consumer holds a result *)
(* exactly while it forwards it (lines 392-397), and the ventilation       *)
(* thread starts only from start() (lines 193-196).                        *)
(***************************************************************************)
THEOREM IInvHolds == Spec => []IInv
BY InitIInv, StepIInv, PTL DEF Spec

(***************************************************************************)
(* Type correctness: in every reachable state of the pool, every queue is  *)
(* within its capacity, every item id is one the ventilator has handed out *)
(* (_ventilated_items never exceeds iterations * len(items)), and every    *)
(* thread is at one of its places.                                         *)
(***************************************************************************)
THEOREM TypeCorrect == Spec => []TypeOK
BY IInvHolds, PTL DEF IInv
=============================================================================
